---- MODULE Spec2Model ----
(***************************************************************************)
(* A model of robusto's IR-to-AST-to-text pipeline:                        *)
(*                                                                         *)
(*   - the tree-based code generation engine of utility/codegen.rs         *)
(*     (CodeChunk, CodeGenerationState, RawCode, generate_code) together   *)
(*     with the hooks of the C backend's node kinds                        *)
(*     (parser_generation/ragel/c.rs);                                     *)
(*   - the common AST builder AstNode::from_protocol                       *)
(*     (parser_generation/ragel/common.rs);                                *)
(*   - Protocol::root_message (bpir/representation.rs);                    *)
(*   - the validation engine validate_protocol (bpir/validation.rs);       *)
(*   - the backend rewrite SourceAstNode::preprocess_common (ragel/c.rs);  *)
(*   - the construction of a RawCode from a generator and its replay;      *)
(*   - SourceAstNode::from and the generation of a whole tree (ragel/c.rs);*)
(*   - the writers of utility/string.rs on a BufWriter<W>, Write::write    *)
(*     (utility/codegen.rs), the Generator of ragel/c.rs that writes a     *)
(*     common AST itself, and CAst::generate                               *)
(*     (ragel/c_procedural_representation.rs);                             *)
(*   - Ast::new_from_protocol (ragel/procedural_representation.rs).        *)
(*                                                                         *)
(* Each subsystem has its own specification (SpecGen, SpecBuild, SpecRoot, *)
(* SpecLint, SpecAdapt, SpecRaw, SpecSource, SpecWhole, SpecWrite,         *)
(* SpecProc) over its own variables; the variables of the other subsystems *)
(* are held at their idle values.                                          *)
(***************************************************************************)
EXTENDS Integers, Sequences, FiniteSets, TLC

VARIABLES
    \* ---- code generation engine (utility/codegen.rs) ----
    tree,       \* the node generate_code is called on
    ambient,    \* code_generation_state.indent when the call was made
    indent,     \* code_generation_state.indent
    stack,      \* the activation records of the recursive generate_code
    result,     \* the LinkedList<CodeChunk> returned by the outermost call
    pc,         \* "idle" | "run" | "done" | "panicked"
    overflow_checks,    \* the build: rustc's -C overflow-checks (on in Cargo's
                \* dev and test profiles, off in release and bench)
    \* ---- the BPIR value the caller builds (bpir/representation.rs) ----
    protocol,   \* the Protocol
    \* ---- common AST builder (ragel/common.rs) ----
    root,       \* the AstNode under construction in from_protocol
    msg_i,      \* position of `for message in &protocol.messages`
    build_pc,   \* "idle" | "input" | "run" | "done"
    \* ---- Protocol::root_message (bpir/representation.rs) ----
    rm_i,       \* position of `for message in &self.messages`
    rm_j,       \* position of `for attribute in &message.attributes`
    rm_ret,     \* position of the returned message in protocol.messages (0: none)
    rm_pc,      \* "idle" | "input" | "called" | "scan" | "returned" | "panicked"
    \* ---- validate_protocol (bpir/validation.rs) ----
    protocol_lint_result,   \* ProtocolLintResult.message_lint_results
    lint_i,     \* position of `for message in &protocol.messages`
    lint_j,     \* position of `for field in &message.fields`
    lint_pc,    \* "idle" | "input" | "run" | "done" | "panicked"
    \* ---- SourceAstNode::preprocess_common (ragel/c.rs) ----
    common,     \* the common AST node handed to preprocess_common
    adapt_pc,   \* "idle" | "called" | "returned" | "written" | "panicked"
    \* ---- RawCode::from(&T) and the replay of its value (utility/codegen.rs) ----
    raw_value,  \* the generator RawCode::from is given (`value`)
    raw_code,   \* the RawCode built from it
    raw_pc,     \* "idle" | "called" | "built" | "pre" | "post" | "panicked"
    \* ---- SourceAstNode::from (ragel/c.rs) ----
    source,     \* `ret`, the C backend AstNode under construction
    src_i,      \* position of `for message in &protocol.messages`
    src_pc,     \* "idle" | "input" | "run" | "built" | "generating"
    \* ---- Write::write (utility/codegen.rs, utility/string.rs) ----
    code_chunks, \* the LinkedList<CodeChunk> generate_code returned to write
    sink,       \* buf_writer, the BufWriter<W> the caller passes
    write_i,    \* position of `for code_chunk in ...iter()`
    write_pc,   \* "idle" | "chunk" | "newlines" | "done" | "line" | "line_done"
                \* | "panicked"
    \* ---- Ast::new_from_protocol (ragel/procedural_representation.rs) ----
    block,      \* the Ast::Sequence under construction
    proc_pc     \* "idle" | "input" | "header" | "function" | "returned" | "panicked"
                \* | "generated"

genVars == <<tree, ambient, indent, stack, result, pc, overflow_checks>>
buildVars == <<root, msg_i, build_pc>>
rootVars == <<rm_i, rm_j, rm_ret, rm_pc>>
lintVars == <<protocol_lint_result, lint_i, lint_j, lint_pc>>
adaptVars == <<common, adapt_pc>>
rawVars == <<raw_value, raw_code, raw_pc>>
extVars == <<lintVars, adaptVars, rawVars>>
sourceVars == <<source, src_i, src_pc>>
writeVars == <<code_chunks, sink, write_i, write_pc>>
procVars == <<block, proc_pc>>
moreVars == <<sourceVars, writeVars, procVars>>
vars == <<genVars, protocol, buildVars, rootVars, extVars, moreVars>>

----------------------------------------------------------------------------
(* Bounds of the model *)

\* longest list of children of the node being generated
MaxChildren == 2
\* largest ambient indent a traversal starts from
MaxIndent == 2
\* most messages of a protocol
MaxMessages == 2
\* most fields of a protocol, all messages together
MaxFields == 2
\* most field attributes of a protocol, all fields together
MaxAttributes == 2
\* most message attributes of a protocol, all messages together
\* most bytes in the code of one chunk handed to the writer
MaxCode == 3
MaxMessageAttributes == 3

\* all sequences over S of length at most n
SeqsUpTo(S, n) == UNION {[1..k -> S] : k \in 0..n}

----------------------------------------------------------------------------
(* utility/codegen.rs: CodeChunk, CodeGenerationState *)

CodeChunk(code, ind, newlines) ==
    [code |-> code, indent |-> ind, newlines |-> newlines]

\* what a hook hands back: the chunks it returns and the indent it leaves in
\* the `&mut CodeGenerationState` it was given
Hook(chunks, ind) == [chunks |-> chunks, indent |-> ind]

\* a call that does not return: it panicked, and the panic unwinds through the
\* callers (none of them catches it)
Unwind == [type |-> "Unwind"]

\* `let x = <call>; ..`: the call is made once, and what follows has what it
\* returned
Call(called, follows(_)) ==
    CHOOSE done \in {follows(returned) : returned \in {called}} : TRUE

\* usize is 64 bits wide and the integers of the model checker are 32: a usize
\* below 2^31 is kept as that integer, and a usize of 2^64 - below, for below
\* in 1..usize_TOP, as its decimal numeral
usize_TOP == 8

usize_numeral(below) == "18446744073709" \o ToString(551616 - below)

\* usize::MAX, 2^64 - 1
usize_MAX == usize_numeral(1)

\* how far below 2^64 a usize is; 0 for one kept as an integer. (ToString is
\* the one operator that takes an integer and a numeral alike.)
usize_below(v) ==
    LET found == {below \in 1..usize_TOP :
                     ToString(v) = ToString(usize_numeral(below))}
    IN  IF found = {} THEN 0 ELSE CHOOSE below \in found : TRUE

\* `v as isize`: the same 64 bits read as two's complement
as_isize(v) ==
    Call(usize_below(v), LAMBDA below : IF below = 0 THEN v ELSE -below)

\* `i as usize`
as_usize(i) == IF i < 0 THEN usize_numeral(-i) ELSE i

\* `a < b` on usize
\* `a < b` on usize, from the two's complement readings: the one with the top
\* bit set is the larger, and two with the same top bit are in the same order
usize_lt(a, b) ==
    Call(as_isize(a), LAMBDA x : Call(as_isize(b), LAMBDA y :
        IF (x < 0) = (y < 0) THEN x < y ELSE y < 0))

\* `a + b` on usize, as usize::overflowing_add tells it: the sum modulo 2^64,
\* and whether the sum left the 64 bits
usize_overflowing_add(a, b) ==
    Call(as_isize(a), LAMBDA x : Call(as_isize(b), LAMBDA y :
        [value |-> as_usize(x + y),
         overflow |-> \/ x < 0 /\ y < 0
                      \/ (x < 0 \/ y < 0) /\ x + y >= 0]))

\* `a - b` on usize, as usize::overflowing_sub tells it
usize_overflowing_sub(a, b) ==
    Call(as_isize(a), LAMBDA x : Call(as_isize(b), LAMBDA y :
        [value |-> as_usize(x - y),
         overflow |-> IF (x < 0) = (y < 0) THEN x < y ELSE y < 0]))

\* what a call comes to whose arithmetic overflowed: a panic ("attempt to add
\* with overflow", "attempt to subtract with overflow") in a build with
\* overflow checks, which unwinds and leaves the `&mut CodeGenerationState`
\* with the indent it had `at` the failed operation; and in a build without
\* them the value the call returns with every sum and difference taken
\* modulo 2^64
Overflow(at, returned) ==
    [checked |-> [type |-> "Unwind", indent |-> at], wrapping |-> returned]

\* the call's value, or Overflow of it when one of its operations overflowed
Arithmetic(overflow, at, returned) ==
    IF overflow THEN Overflow(at, returned) ELSE returned

is_Overflow(returned) == "wrapping" \in DOMAIN returned

\* a call that makes the `calls` one after the other: the first of them to
\* overflow is where the build with overflow checks panics
Propagate(calls, returned) ==
    IF \A i \in 1..Len(calls) : ~is_Overflow(calls[i])
    THEN returned
    ELSE LET first == CHOOSE i \in 1..Len(calls) :
                          /\ is_Overflow(calls[i])
                          /\ \A j \in 1..(i - 1) : ~is_Overflow(calls[j])
         IN  [checked |-> calls[first].checked, wrapping |-> returned]

\* what the call returns where nothing panics on overflow
wrapping(returned) ==
    IF is_Overflow(returned) THEN returned.wrapping ELSE returned

\* what the call comes to in the build that runs it
Built(returned) ==
    IF is_Overflow(returned)
    THEN IF overflow_checks THEN returned.checked ELSE returned.wrapping
    ELSE returned

\* a slip in the accumulation: the new chunks land in front of the old ones
append_in_front(list, other) == other \o list

\* LinkedList::append: moves all elements of `other` to the end of `list`
append(list, other) == list \o other

\* a slip in increment_indent: the test for a too large decrement is left out
increment_indent_unclamped(ind, increment) == ind + increment

\* CodeGenerationState::increment_indent:
\* `if increment < 0isize && self.indent < increment.abs() as usize`, else
\* `self.indent = (self.indent as isize + increment) as usize`
increment_indent(ind, increment) ==
    IF increment < 0 /\ usize_lt(ind, -increment)
    THEN 0
    ELSE as_usize(as_isize(ind) + increment)

----------------------------------------------------------------------------
(* parser_generation/ragel/c.rs: the node kinds of the C backend *)

MessageStruct(message_name) ==
    [type |-> "MessageStruct", message_name |-> message_name]

MessageStructMember(name, array_length) ==
    [type |-> "MessageStructMember", name |-> name,
     field_base_type |-> "I8", array_length |-> array_length]

ParserStateStruct(machine_name) ==
    [type |-> "ParserStateStruct", machine_name |-> machine_name]

ParserStateInitFunction(machine_name) ==
    [type |-> "ParserStateInitFunction", machine_name |-> machine_name]

ParsingFunction(message_name) ==
    [type |-> "ParsingFunction", message_name |-> message_name]

\* the opening chunk, then `code_generation_state.indent += 1;`
MessageStruct_generate_code_pre_traverse(self, ind) ==
    Call(usize_overflowing_add(ind, 1), LAMBDA inner :
        Arithmetic(inner.overflow, ind,
            Hook(<<CodeChunk("struct " \o self.message_name \o "Message {",
                             ind, 1)>>,
                 inner.value)))

\* `code_generation_state.indent -= 1;` on a usize, then the closing chunk at
\* the new indent. At indent 0 the subtraction overflows: the hook panics, or
\* it goes on with usize::MAX, as the build has it.
MessageStruct_generate_code_post_traverse(self, ind) ==
    Call(usize_overflowing_sub(ind, 1), LAMBDA outer :
        Arithmetic(outer.overflow, ind,
            Hook(<<CodeChunk("};", outer.value, 1)>>, outer.value)))

MessageStructMember_generate_code_pre_traverse(self, ind) ==
    LET formatted ==
            "uint8_t " \o self.name \o
            (IF self.array_length = 0
             THEN ""
             ELSE "[" \o ToString(self.array_length) \o "]") \o ";"
    IN  Hook(<<CodeChunk(formatted, ind, 1)>>, ind)

\* the trait's default post-traverse hook: no chunks, state untouched
TreeBasedCodeGeneration_generate_code_post_traverse(self, ind) ==
    Hook(<<>>, ind)

\* the members are at `code_generation_state.indent + 1`
ParserStateStruct_generate_code_pre_traverse(self, ind) ==
    Call(usize_overflowing_add(ind, 1), LAMBDA inner :
        Arithmetic(inner.overflow, ind,
            Hook(<<CodeChunk("struct " \o self.machine_name \o "ParserState {",
                             ind, 1),
                   CodeChunk("int machineInitRequired;", inner.value, 1),
                   CodeChunk("int cs;", inner.value, 1),
                   CodeChunk("};", ind, 1)>>,
                 ind)))

\* `code_generation_state.indent += 1usize;` after the second chunk
ParserStateInitFunction_generate_code_pre_traverse(self, ind) ==
    Call(usize_overflowing_add(ind, 1), LAMBDA inner :
        Arithmetic(inner.overflow, ind,
            Hook(<<CodeChunk("void machine" \o self.machine_name \o
                             "ParserStateInit(struct " \o self.machine_name \o
                             "ParserState *aParserState)", ind, 1),
                   CodeChunk("{", ind, 1),
                   CodeChunk("aParserState->machineInitRequired = 0;",
                             inner.value, 1),
                   CodeChunk("aParserState->cs = 0;", inner.value, 1)>>,
                 inner.value)))

\* `code_generation_state.indent -= 1usize;` first: at indent 0 it overflows,
\* as in MessageStruct
ParserStateInitFunction_generate_code_post_traverse(self, ind) ==
    Call(usize_overflowing_sub(ind, 1), LAMBDA outer :
        Arithmetic(outer.overflow, ind,
            Hook(<<CodeChunk("}", outer.value, 1)>>, outer.value)))

\* `code_generation_state.indent += 1usize;` after the second chunk and
\* `-= 1usize;` before the last
ParsingFunction_generate_code_pre_traverse(self, ind) ==
    Call(usize_overflowing_add(ind, 1), LAMBDA inner :
    Call(usize_overflowing_sub(inner.value, 1), LAMBDA outer :
        Arithmetic(inner.overflow \/ outer.overflow, ind,
            Hook(<<CodeChunk("void parse" \o self.message_name \o "(struct " \o
                             self.message_name \o
                             "ParserState *aParserState, const char *aInputBuffer, int aInputBufferLength, struct " \o
                             self.message_name \o " *a" \o self.message_name \o ")",
                             ind, 1),
                   CodeChunk("{", ind, 1),
                   CodeChunk("const char *p = aInputBuffer;  // Iterator \"begin\" pointer -- Ragel-specific variable for C code generation",
                             inner.value, 1),
                   CodeChunk("const char *pe = aInputBuffer + aInputBufferLength;  // Iterator \"end\" pointer -- Ragel-specific variable for C code generation",
                             inner.value, 1),
                   \* (the two backquotes around aParserState are written as apostrophes:
                   \* a TLA+ string cannot hold a backquote)
                   CodeChunk("// Parse starting from the state defined in 'aParserState'",
                             inner.value, 1),
                   CodeChunk("%% write exec;", inner.value, 1),
                   CodeChunk("}", outer.value, 1)>>,
                 outer.value))))

\* enum AstNodeType: the payload of a C backend AstNode
AstNodeType_Root == [type |-> "AstNodeType", variant |-> "Root"]

AstNodeType(node) ==
    [type |-> "AstNodeType", variant |-> node.type, node |-> node]

\* AstNodeType::Common(common::AstNode)
AstNodeType_Common(node) ==
    [type |-> "AstNodeType", variant |-> "Common", node |-> node]

\* generate_code of a common::AstNode, defined with the common AST below
RECURSIVE common_AstNode_generate_code(_, _)

\* impl TreeBasedCodeGeneration for AstNodeType: the arm taken for each variant
AstNodeType_generate_code_pre_traverse(self, ind) ==
    CASE self.variant = "ParsingFunction" ->
            ParsingFunction_generate_code_pre_traverse(self.node, ind)
      [] self.variant = "ParserStateStruct" ->
            ParserStateStruct_generate_code_pre_traverse(self.node, ind)
      [] self.variant = "ParserStateInitFunction" ->
            ParserStateInitFunction_generate_code_pre_traverse(self.node, ind)
      [] self.variant = "MessageStruct" ->
            MessageStruct_generate_code_pre_traverse(self.node, ind)
      [] self.variant = "MessageStructMember" ->
            MessageStructMember_generate_code_pre_traverse(self.node, ind)
      \* Delegate further generation to common
      [] self.variant = "Common" ->
            common_AstNode_generate_code(self.node, ind)
      \* n => { log::warn!("Unhandled node {:?}, skipping", n); LinkedList::new() }
      [] OTHER -> Hook(<<>>, ind)

AstNodeType_generate_code_post_traverse(self, ind) ==
    CASE self.variant = "ParsingFunction" ->
            TreeBasedCodeGeneration_generate_code_post_traverse(self.node, ind)
      [] self.variant = "ParserStateStruct" ->
            TreeBasedCodeGeneration_generate_code_post_traverse(self.node, ind)
      \* c.rs:399-401: this arm calls the node's PRE-traverse hook
      [] self.variant = "ParserStateInitFunction" ->
            ParserStateInitFunction_generate_code_pre_traverse(self.node, ind)
      [] self.variant = "MessageStruct" ->
            MessageStruct_generate_code_post_traverse(self.node, ind)
      [] self.variant = "MessageStructMember" ->
            TreeBasedCodeGeneration_generate_code_post_traverse(self.node, ind)
      \* AstNodeType::Common(ref node) => LinkedList::new()
      [] self.variant = "Common" -> Hook(<<>>, ind)
      [] OTHER -> Hook(<<>>, ind)

----------------------------------------------------------------------------
(* utility/codegen.rs: RawCode *)

\* a slip in the replay: the recorded indent is taken as absolute
RawCode_replay_absolute(chunk, ind) ==
    CodeChunk(chunk.code, chunk.indent, chunk.newlines)

\* the replayed copy of one recorded chunk:
\* `indent: chunk.indent + code_generation_state.indent`
RawCode_replay(chunk, ind) ==
    CodeChunk(chunk.code, usize_overflowing_add(chunk.indent, ind).value,
              chunk.newlines)

\* one of the sums of the replay overflows
RawCode_replay_overflows(chunks, ind) ==
    \E i \in 1..Len(chunks) : usize_overflowing_add(chunks[i].indent, ind).overflow

RawCode_generate_code_pre_traverse(self, ind) ==
    Arithmetic(RawCode_replay_overflows(self.code_chunk_pre_traverse, ind), ind,
        Hook([i \in 1..Len(self.code_chunk_pre_traverse) |->
                  RawCode_replay(self.code_chunk_pre_traverse[i], ind)],
             increment_indent(ind, self.indent_increment)))

\* a slip in the post hook: the recorded increment is not taken back
RawCode_generate_code_post_traverse_no_restore(self, ind) ==
    Hook([i \in 1..Len(self.code_chunk_post_traverse) |->
              RawCode_replay(self.code_chunk_post_traverse[i], ind)],
         ind)

\* increment_indent(-self.indent_increment) first, then the replay at the
\* restored indent: a sum that overflows there panics with the indent restored
RawCode_generate_code_post_traverse(self, ind) ==
    Call(increment_indent(ind, -self.indent_increment), LAMBDA restored :
        Arithmetic(
            RawCode_replay_overflows(self.code_chunk_post_traverse, restored),
            restored,
            Hook([i \in 1..Len(self.code_chunk_post_traverse) |->
                      RawCode_replay(self.code_chunk_post_traverse[i], restored)],
                 restored)))

\* the hooks of a node kind that carries them itself (the T of
\* `impl<T: TreeBasedCodeGeneration>`): trait method resolution
generate_code_pre_traverse(self, ind) ==
    CASE self.type = "MessageStruct" ->
            MessageStruct_generate_code_pre_traverse(self, ind)
      [] self.type = "MessageStructMember" ->
            MessageStructMember_generate_code_pre_traverse(self, ind)
      [] self.type = "ParserStateStruct" ->
            ParserStateStruct_generate_code_pre_traverse(self, ind)
      [] self.type = "ParserStateInitFunction" ->
            ParserStateInitFunction_generate_code_pre_traverse(self, ind)
      [] self.type = "ParsingFunction" ->
            ParsingFunction_generate_code_pre_traverse(self, ind)
      [] self.type = "AstNodeType" ->
            AstNodeType_generate_code_pre_traverse(self, ind)
      [] self.type = "RawCode" ->
            RawCode_generate_code_pre_traverse(self, ind)

generate_code_post_traverse(self, ind) ==
    CASE self.type = "MessageStruct" ->
            MessageStruct_generate_code_post_traverse(self, ind)
      [] self.type = "MessageStructMember" ->
            TreeBasedCodeGeneration_generate_code_post_traverse(self, ind)
      [] self.type = "ParserStateStruct" ->
            TreeBasedCodeGeneration_generate_code_post_traverse(self, ind)
      [] self.type = "ParserStateInitFunction" ->
            ParserStateInitFunction_generate_code_post_traverse(self, ind)
      [] self.type = "ParsingFunction" ->
            TreeBasedCodeGeneration_generate_code_post_traverse(self, ind)
      [] self.type = "AstNodeType" ->
            AstNodeType_generate_code_post_traverse(self, ind)
      [] self.type = "RawCode" ->
            RawCode_generate_code_post_traverse(self, ind)

\* a slip in the literal: the chunk is left without its newline
RawCode_from_str_no_newline(value) ==
    [type |-> "RawCode",
     code_chunk_pre_traverse |-> <<CodeChunk(value, 0, 0)>>,
     code_chunk_post_traverse |-> <<>>,
     indent_increment |-> 0]

\* impl From<&str> for RawCode
RawCode_from_str(value) ==
    [type |-> "RawCode",
     code_chunk_pre_traverse |-> <<CodeChunk(value, 0, 1)>>,
     code_chunk_post_traverse |-> <<>>,
     indent_increment |-> 0]

\* impl<T: TreeBasedCodeGeneration> From<&T> for RawCode
RawCode_from(value) ==
    Call(generate_code_pre_traverse(value, 0), LAMBDA pre :
    Call(wrapping(pre).indent, LAMBDA traverse_indent :
    Call(generate_code_post_traverse(value, traverse_indent), LAMBDA post :
        Propagate(<<pre, post>>,
            [type |-> "RawCode",
             code_chunk_pre_traverse |-> wrapping(pre).chunks,
             code_chunk_post_traverse |-> wrapping(post).chunks,
             \* traverse_indent as isize - code_generation_state.indent as isize
             indent_increment |-> as_isize(traverse_indent)
                                  - as_isize(wrapping(post).indent)]))))

----------------------------------------------------------------------------
(* utility/string.rs: the writers. Text is a sequence of bytes, and the sink *)
(* is a std::io::BufWriter<W> over a writer W the caller supplies.           *)

\* a BufWriter<W> as it is made: `capacity` is the size of its buffer, `inner`
\* how the W below it answers W::write(bytes), `buf` holds the bytes in the
\* buffer, `written` the bytes W took
BufWriter(capacity, inner) ==
    [capacity |-> capacity, inner |-> inner, buf |-> <<>>, written |-> <<>>]

\* the sinks a caller passes. BufWriter::with_capacity(0, w) hands every write
\* to W, BufWriter::new(w) has a buffer of 8192 bytes; W takes every byte
\* (Ok(len): a Vec, a healthy File), or one byte a call (Ok(1), a short
\* write), or it fails (Err)
BufWriters == {BufWriter(capacity, inner) : capacity \in {0, 8192},
                                            inner \in {"all", "one", "err"}}

\* the bytes that have left the writers for the sink, in order
Text(buf_writer) == buf_writer.written \o buf_writer.buf

\* io::Result::Err
io_Err == [type |-> "Err"]

\* BufWriter::flush_buf: the buffer is handed to W until W took all of it
BufWriter_flush_buf(self) ==
    IF self.buf = <<>>
    THEN self
    ELSE IF self.inner = "err"
         THEN io_Err
         ELSE [self EXCEPT !.written = @ \o self.buf, !.buf = <<>>]

\* <BufWriter<W> as Write>::write: bytes that do not fit the buffer flush it,
\* bytes as long as the buffer go to W in one W::write, which may take fewer
\* of them; the rest is buffered
BufWriter_write(self, bytes) ==
    LET flushed == IF Len(self.buf) + Len(bytes) > self.capacity
                   THEN BufWriter_flush_buf(self)
                   ELSE self
    IN  IF flushed = io_Err
        THEN io_Err
        ELSE IF Len(bytes) >= flushed.capacity
             THEN CASE flushed.inner = "all" ->
                          [flushed EXCEPT !.written = @ \o bytes]
                    [] flushed.inner = "one" ->
                          [flushed EXCEPT !.written =
                              @ \o SubSeq(bytes, 1, IF bytes = <<>> THEN 0 ELSE 1)]
                    [] flushed.inner = "err" -> io_Err
             ELSE [flushed EXCEPT !.buf = @ \o bytes]

\* a writer panicked: the panic unwinds, and buf_writer is left as the writes
\* before the failed one made it (a failed BufWriter::write changes nothing:
\* W fails at the first byte it is handed, by the flush or by the write)
Unwinding(buf_writer) == [type |-> "Unwind", buf_writer |-> buf_writer]

\* (a BufWriter and the chunks of a hook have no `type`)
is_Unwinding(returned) ==
    "type" \in DOMAIN returned /\ returned.type = "Unwind"

\* `if let Err(_) = buf_writer.write(bytes) { log::error!(..); panic!(); }`:
\* the count in Ok(n) is dropped. A panic before this statement is passed on:
\* the statement is not reached.
write(buf, bytes) ==
    IF is_Unwinding(buf)
    THEN buf
    ELSE LET r == BufWriter_write(buf, bytes)
         IN  IF r = io_Err THEN Unwinding(buf) ELSE r

\* `for i in 0..indent { buf_writer.write("    ".as_bytes()) }`
RECURSIVE write_indent_or_panic(_, _)
write_indent_or_panic(buf, ind) ==
    IF ind = 0
    THEN buf
    ELSE write_indent_or_panic(write(buf, <<" ", " ", " ", " ">>), ind - 1)

\* const NEWLINE
NEWLINE == <<"\n">>

\* the indent once, the line as it is, NEWLINE
write_line_with_indent_or_panic(buf, ind, line) ==
    write(write(write_indent_or_panic(buf, ind), line), NEWLINE)

\* &lines[from..to], positions counted from 0
slice(lines, from, to) == SubSeq(lines, from + 1, to)

\* the positions after start_position at which the loop takes its
\* `else if n_newlines > 0` branch: n_newlines counts the CR/LF bytes since
\* the last byte that is neither, so the branch is taken at a byte that is
\* neither and follows one that is (positions counted from 0)
write_positions(lines, start_position) ==
    {position \in (start_position + 1)..(Len(lines) - 1) :
        /\ lines[position] \in {"\r", "\n"}
        /\ lines[position + 1] \notin {"\r", "\n"}}

\* `for position in 0..lines.len() { .. }` from one taken branch to the next:
\* the sink and start_position after the loop
RECURSIVE write_with_indent_loop(_, _, _, _)
write_with_indent_loop(buf, ind, lines, start_position) ==
    LET positions == write_positions(lines, start_position)
    IN  IF positions = {}
        THEN [buf |-> buf, start_position |-> start_position]
        ELSE LET position == CHOOSE first \in positions :
                                 \A other \in positions : first <= other
             IN  write_with_indent_loop(
                     write_indent_or_panic(
                         write(buf, slice(lines, start_position, position)),
                         ind),
                     ind, lines, position)

write_with_indent_or_panic(buf, ind, lines) ==
    LET after == write_with_indent_loop(write_indent_or_panic(buf, ind), ind,
                                        lines, 0)
    IN  IF after.start_position < Len(lines)
        THEN write(after.buf, slice(lines, after.start_position, Len(lines)))
        ELSE after.buf

\* write_newlines_or_panic is not part of the sources: the writer appends the
\* chunk's newline count, one NEWLINE a time
RECURSIVE write_newlines_or_panic(_, _)
write_newlines_or_panic(buf, newlines) ==
    IF newlines = 0
    THEN buf
    ELSE write_newlines_or_panic(write(buf, NEWLINE), newlines - 1)

\* Write::write_all on the BufWriter: every byte is taken, or it fails. Bytes
\* as long as the buffer go to W::write_all, which asks W::write `while
\* !buf.is_empty()`: for no bytes W is not asked
BufWriter_write_all(self, bytes) ==
    LET flushed == IF Len(self.buf) + Len(bytes) > self.capacity
                   THEN BufWriter_flush_buf(self)
                   ELSE self
    IN  IF flushed = io_Err
        THEN io_Err
        ELSE IF Len(bytes) >= flushed.capacity
             THEN IF flushed.inner = "err" /\ bytes # <<>>
                  THEN io_Err
                  ELSE [flushed EXCEPT !.written = @ \o bytes]
             ELSE [flushed EXCEPT !.buf = @ \o bytes]

\* `buf_writer.write_fmt(format_args!(..));` with the Result dropped. The
\* pieces of the format (the text between two arguments, and each argument as
\* it is displayed) are handed to write_all one after the other; the first
\* that fails ends the call, and nobody is told
RECURSIVE write_fmt(_, _)
write_fmt(buf, pieces) ==
    IF pieces = <<>>
    THEN buf
    ELSE LET r == BufWriter_write_all(buf, Head(pieces))
         IN  IF r = io_Err THEN buf ELSE write_fmt(r, Tail(pieces))

\* str::as_bytes, for the names and patterns of the protocols of the model
as_bytes(string) ==
    CASE string = "TestMessage" -> <<"T", "e", "s", "t", "M", "e", "s", "s", "a", "g", "e">>
      [] string = "Reply" -> <<"R", "e", "p", "l", "y">>
      [] string = "preamble" -> <<"p", "r", "e", "a", "m", "b", "l", "e">>
      [] string = "payload" -> <<"p", "a", "y", "l", "o", "a", "d">>
      [] string = "\\xfe" -> <<"\\", "x", "f", "e">>
      [] string = "[a-z]+" -> <<"[", "a", "-", "z", "]", "+">>

\* format!("{}", n) of a usize
RECURSIVE usize_fmt(_)
usize_fmt(n) ==
    LET digits == <<"0", "1", "2", "3", "4", "5", "6", "7", "8", "9">>
    IN  IF n < 10
        THEN <<digits[n + 1]>>
        ELSE usize_fmt(n \div 10) \o <<digits[(n % 10) + 1]>>

----------------------------------------------------------------------------
(* The nodes the engine is run on *)

MessageNames == {"Msg"}
FieldNames == {"preamble"}
\* 0: "considered just a field"; 64: the default length
ArrayLengths == {0, 64}

\* the node kinds of c.rs that carry the hooks themselves
StructNodes ==
    {MessageStruct(n) : n \in MessageNames}
    \cup {MessageStructMember(n, l) : n \in FieldNames, l \in ArrayLengths}
    \cup {ParserStateStruct(n) : n \in MessageNames}
    \cup {ParserStateInitFunction(n) : n \in MessageNames}
    \cup {ParsingFunction(n) : n \in MessageNames}

\* the kinds SourceAstNode::preprocess_common caches as RawCode
CachedTypes ==
    {"ParsingFunction", "MessageStruct", "MessageStructMember",
     "ParserStateInitFunction"}

CachedNodes == {n \in StructNodes : n.type \in CachedTypes}

\* the payloads of a C backend AstNode
AstNodeTypes == {AstNodeType_Root} \cup {AstNodeType(n) : n \in StructNodes}

\* the RawCode values preprocess_common builds, and the one RawCode::from
\* records from the dispatching ParserStateInitFunction, whose post arm does
\* not undo its pre arm: its recorded increment is negative
RawCodes ==
    {RawCode_from(n) : n \in CachedNodes}
    \cup {RawCode_from_str("access aParserState->;")}
    \cup {RawCode_from(AstNodeType(ParserStateInitFunction(n))) : n \in MessageNames}

\* struct AstNode { ast_node_type, children }
AstNode(ast_node_type, children) ==
    [ast_node_type |-> ast_node_type, children |-> children]

\* subtrees hung below the node under test: leaves of the three families,
\* and nested nodes that move the indent
ChildTrees ==
    {AstNode(AstNodeType(MessageStructMember("preamble", 64)), <<>>),
     AstNode(RawCode_from_str("access aParserState->;"), <<>>),
     AstNode(AstNodeType(MessageStruct("Msg")),
             <<AstNode(AstNodeType(MessageStructMember("preamble", 0)), <<>>)>>),
     AstNode(RawCode_from(MessageStruct("Msg")),
             <<AstNode(RawCode_from(MessageStructMember("preamble", 64)), <<>>),
               AstNode(AstNodeType(ParserStateStruct("Msg")), <<>>)>>)}

TopNodes == StructNodes \cup AstNodeTypes \cup RawCodes

Trees ==
    {AstNode(t, cs) : t \in TopNodes, cs \in SeqsUpTo(ChildTrees, MaxChildren)}

----------------------------------------------------------------------------
(* utility/codegen.rs:169-188: impl<T> CodeGeneration for T :: generate_code, *)
(* one activation record per call                                             *)

Frame(node) == [node |-> node, at |-> "pre", next |-> 1, ret |-> <<>>]

Top == stack[Len(stack)]

SetTop(frame) == [stack EXCEPT ![Len(stack)] = frame]

\* generate_code is not running
IdleGenCall ==
    /\ tree = AstNode(AstNodeType_Root, <<>>)
    /\ ambient = 0
    /\ indent = 0
    /\ stack = <<>>
    /\ result = <<>>
    /\ pc = "idle"

\* and it never will: none of the arithmetic the overflow checks are about
\* is run
IdleGen ==
    /\ IdleGenCall
    /\ overflow_checks = TRUE

IdleBuild ==
    /\ root = [ast_node_type |-> [type |-> "None"], children |-> <<>>]
    /\ msg_i = 0
    /\ build_pc = "idle"

IdleRoot ==
    /\ rm_i = 0
    /\ rm_j = 0
    /\ rm_ret = 0
    /\ rm_pc = "idle"

IdleLint ==
    /\ protocol_lint_result = <<>>
    /\ lint_i = 0
    /\ lint_j = 0
    /\ lint_pc = "idle"

IdleAdapt ==
    /\ common = [ast_node_type |-> [type |-> "None"], children |-> <<>>]
    /\ adapt_pc = "idle"

IdleRaw ==
    /\ raw_value = AstNodeType_Root
    /\ raw_code = AstNodeType_Root
    /\ raw_pc = "idle"

IdleExt == IdleLint /\ IdleAdapt /\ IdleRaw

IdleSource ==
    /\ source = AstNode(AstNodeType_Root, <<>>)
    /\ src_i = 0
    /\ src_pc = "idle"

\* Write::write is not running
IdleWriteCall ==
    /\ code_chunks = <<>>
    /\ write_i = 0
    /\ write_pc = "idle"

IdleWrite ==
    /\ IdleWriteCall
    /\ sink = BufWriter(0, "all")

IdleProc ==
    /\ block = [type |-> "Sequence", blocks |-> <<>>]
    /\ proc_pc = "idle"

IdleMore == IdleSource /\ IdleWrite /\ IdleProc

\* a caller hands generate_code a node and a CodeGenerationState
InitGen ==
    /\ tree \in Trees
    /\ ambient \in 0..MaxIndent
    /\ indent = ambient
    /\ stack = <<Frame(tree)>>
    /\ result = <<>>
    /\ pc = "run"
    /\ overflow_checks \in BOOLEAN
    /\ protocol = [messages |-> <<>>, attributes |-> <<>>]
    /\ IdleBuild
    /\ IdleRoot
    /\ IdleExt
    /\ IdleMore

\* ret.append(&mut self.generate_code_pre_traverse(code_generation_state));
GenPreTraverse ==
    /\ pc = "run"
    /\ Top.at = "pre"
    /\ \E h \in {Built(generate_code_pre_traverse(Top.node.ast_node_type, indent))} :
           IF is_Unwinding(h)
           \* the hook panicked: generate_code does not return, and the state
           \* is as the hook left it
           THEN /\ pc' = "panicked"
                /\ indent' = h.indent
                /\ UNCHANGED stack
           ELSE /\ stack' = SetTop([Top EXCEPT !.ret = append(@, h.chunks),
                                               !.at = "iter"])
                /\ indent' = h.indent
                /\ UNCHANGED pc
    /\ UNCHANGED <<moreVars, tree, ambient, result, overflow_checks, protocol,
                   buildVars, extVars, rootVars>>

\* for subnode in self.iter() { ... subnode.generate_code(...) }: the call
GenCallSubnode ==
    /\ pc = "run"
    /\ Top.at = "iter"
    /\ Top.next <= Len(Top.node.children)
    /\ stack' = Append(stack, Frame(Top.node.children[Top.next]))
    /\ UNCHANGED <<moreVars, tree, ambient, indent, result, pc, overflow_checks,
                   protocol, buildVars, extVars, rootVars>>

\* ret.append(&mut self.generate_code_post_traverse(code_generation_state));
GenPostTraverse ==
    /\ pc = "run"
    /\ Top.at = "iter"
    /\ Top.next > Len(Top.node.children)
    /\ \E h \in {Built(generate_code_post_traverse(Top.node.ast_node_type, indent))} :
           IF is_Unwinding(h)
           \* the hook panicked: generate_code does not return, and the state
           \* is as the hook left it
           THEN /\ pc' = "panicked"
                /\ indent' = h.indent
                /\ UNCHANGED stack
           ELSE /\ stack' = SetTop([Top EXCEPT !.ret = append(@, h.chunks),
                                               !.at = "ret"])
                /\ indent' = h.indent
                /\ UNCHANGED pc
    /\ UNCHANGED <<moreVars, tree, ambient, result, overflow_checks, protocol,
                   buildVars, extVars, rootVars>>

\* a subnode's generate_code returns: ret.append(&mut <its chunks>), next subnode
GenReturnToParent ==
    /\ pc = "run"
    /\ Top.at = "ret"
    /\ Len(stack) > 1
    /\ LET parent == stack[Len(stack) - 1]
           popped == SubSeq(stack, 1, Len(stack) - 1)
       IN  stack' = [popped EXCEPT ![Len(popped)] =
                        [parent EXCEPT !.ret = append(@, Top.ret),
                                       !.next = @ + 1]]
    /\ UNCHANGED <<moreVars, tree, ambient, indent, result, pc, overflow_checks,
                   protocol, buildVars, extVars, rootVars>>

\* the outermost generate_code returns `ret` to the caller
GenReturn ==
    /\ pc = "run"
    /\ Top.at = "ret"
    /\ Len(stack) = 1
    /\ result' = Top.ret
    /\ stack' = <<>>
    /\ pc' = "done"
    /\ UNCHANGED <<moreVars, tree, ambient, indent, overflow_checks, protocol,
                   buildVars, extVars, rootVars>>

NextGen ==
    \/ GenPreTraverse
    \/ GenCallSubnode
    \/ GenPostTraverse
    \/ GenReturnToParent
    \/ GenReturn

SpecGen == InitGen /\ [][NextGen]_vars

----------------------------------------------------------------------------
(* bpir/representation.rs: Protocol, Message, Field and their attributes, *)
(* and the caller that builds a Protocol value                            *)

\* FieldAttribute::MaxLength(MaxLengthFieldAttribute { value })
MaxLength(value) == [type |-> "MaxLength", value |-> value]

\* FieldType::Regex(RegexFieldType { regex })
Regex(regex) == [type |-> "Regex", regex |-> regex]

Field(name, field_type, attributes) ==
    [name |-> name, field_type |-> field_type, attributes |-> attributes]

Message(name, fields, attributes) ==
    [name |-> name, fields |-> fields, attributes |-> attributes]

\* MaxLengthFieldAttribute::get_default_value
get_default_value == 64

ProtocolMessageNames == {"TestMessage", "Reply"}
\* the name and the pattern of the fields the caller declares
FieldShapes == {<<"preamble", "\\xfe">>, <<"payload", "[a-z]+">>}
\* the values of the MaxLength attributes the caller declares
MaxLengthValues == {0, 5, 64}

RECURSIVE Sum(_)
Sum(numbers) ==
    IF numbers = <<>> THEN 0 ELSE Head(numbers) + Sum(Tail(numbers))

\* the sizes the bounds are about
NumFields ==
    Sum([i \in 1..Len(protocol.messages) |-> Len(protocol.messages[i].fields)])
NumFieldAttributes ==
    Sum([i \in 1..Len(protocol.messages) |->
            Sum([j \in 1..Len(protocol.messages[i].fields) |->
                    Len(protocol.messages[i].fields[j].attributes)])])
NumMessageAttributes ==
    Sum([i \in 1..Len(protocol.messages) |->
            Len(protocol.messages[i].attributes)])

LastMessage == protocol.messages[Len(protocol.messages)]

SetLastMessage(message) ==
    [protocol EXCEPT !.messages[Len(protocol.messages)] = message]

Inputting ==
    \/ build_pc = "input"
    \/ rm_pc = "input"
    \/ lint_pc = "input"
    \/ src_pc = "input"
    \/ proc_pc = "input"

\* the caller is declaring fields (for the builder or for the validation)
InputtingFields == build_pc = "input" \/ lint_pc = "input" \/ src_pc = "input"

\* protocol.messages.push(Message { name, fields: vec![], attributes: vec![] })
PushMessage ==
    /\ Inputting
    /\ Len(protocol.messages) < MaxMessages
    /\ \E name \in ProtocolMessageNames :
          protocol' = [protocol EXCEPT
                          !.messages = Append(@, Message(name, <<>>, <<>>))]
    /\ UNCHANGED <<moreVars, genVars, buildVars, extVars, rootVars>>

\* message.fields.push(Field { name, field_type: Regex, attributes: vec![] })
PushField ==
    /\ InputtingFields
    /\ protocol.messages # <<>>
    /\ NumFields < MaxFields
    /\ \E shape \in FieldShapes :
          protocol' = SetLastMessage(
              [LastMessage EXCEPT
                  !.fields = Append(@, Field(shape[1], Regex(shape[2]), <<>>))])
    /\ UNCHANGED <<moreVars, genVars, buildVars, extVars, rootVars>>

\* field.attributes.push(FieldAttribute::MaxLength(..))
PushFieldAttribute ==
    /\ InputtingFields
    /\ protocol.messages # <<>>
    /\ LastMessage.fields # <<>>
    /\ NumFieldAttributes < MaxAttributes
    /\ \E value \in MaxLengthValues :
          protocol' = SetLastMessage(
              [LastMessage EXCEPT
                  !.fields[Len(LastMessage.fields)].attributes =
                      Append(@, MaxLength(value))])
    /\ UNCHANGED <<moreVars, genVars, buildVars, extVars, rootVars>>

\* message.attributes.push(MessageAttribute::Root)
PushMessageAttribute ==
    /\ (rm_pc = "input" \/ proc_pc = "input")
    /\ protocol.messages # <<>>
    /\ NumMessageAttributes < MaxMessageAttributes
    /\ protocol' = SetLastMessage(
           [LastMessage EXCEPT !.attributes = Append(@, "Root")])
    /\ UNCHANGED <<moreVars, genVars, buildVars, extVars, rootVars>>

----------------------------------------------------------------------------
(* parser_generation/ragel/common.rs: the common AST and its builder *)

Ast_None == [type |-> "None"]

MachineHeaderAstNode(machine_name) ==
    [type |-> "MachineHeader", machine_name |-> machine_name]

MessageStructAstNode(message_name) ==
    [type |-> "MessageStruct", message_name |-> message_name]

MessageStructMemberAstNode(name, field_base_type, array_length) ==
    [type |-> "MessageStructMember", name |-> name,
     field_base_type |-> field_base_type, array_length |-> array_length]

MachineDefinitionAstNode(machine_name, fields) ==
    [type |-> "MachineDefinition", machine_name |-> machine_name,
     fields |-> fields]

MachineActionHookAstNode(name) ==
    [type |-> "MachineActionHook", name |-> name]

RegexMachineFieldAstNode(string_sequence, name) ==
    [type |-> "RegexMachineField", string_sequence |-> string_sequence,
     name |-> name]

ParsingFunctionAstNode(message_name) ==
    [type |-> "ParsingFunction", message_name |-> message_name]

\* a slip in add_child: the new child is put in front of its siblings
add_child_in_front(self, ast_node_type) ==
    [self EXCEPT !.children = <<AstNode(ast_node_type, <<>>)>> \o @]

\* AstNode::add_child: self.children.push(child)
add_child(self, ast_node_type) ==
    [self EXCEPT !.children = Append(@, AstNode(ast_node_type, <<>>))]

\* the same on the child add_child returned last (`message_struct.add_child(..)`)
add_child_to_last(self, ast_node_type) ==
    [self EXCEPT !.children[Len(self.children)] = add_child(@, ast_node_type)]

\* `for attribute in &field.attributes { if let MaxLength(..) { value = .. } }`
RECURSIVE scan_max_length(_, _)
scan_max_length(attributes, value) ==
    IF attributes = <<>>
    THEN value
    ELSE scan_max_length(Tail(attributes),
                         IF Head(attributes).type = "MaxLength"
                         THEN Head(attributes).value
                         ELSE value)

\* add_message_parser: `if value == 0usize { value = get_default_value();
\* log::warn!("Did not get \"MaxLength\" attribute ..") }` is taken
default_applied(field) == scan_max_length(field.attributes, 0) = 0

\* a slip in the block: the default is forgotten
array_length_no_default(field) == scan_max_length(field.attributes, 0)

\* add_message_parser: the block computing `array_length`
array_length(field) ==
    LET value == scan_max_length(field.attributes, 0)
    IN  IF value = 0 THEN get_default_value ELSE value

\* add_message_parser: `for field in &message.fields { message_struct.add_child(..) }`
RECURSIVE add_message_struct_members(_, _)
add_message_struct_members(self, fields) ==
    IF fields = <<>>
    THEN self
    ELSE add_message_struct_members(
             add_child_to_last(self,
                 MessageStructMemberAstNode(Head(fields).name, "I8",
                                            array_length(Head(fields)))),
             Tail(fields))

\* AstNode::add_machine_action_hook
add_machine_action_hook(self, field) ==
    add_child(self, MachineActionHookAstNode(field.name))

\* a slip in the matcher: the name and the pattern change places
add_regex_machine_field_parser_swapped(self, field, regex) ==
    add_child(self, RegexMachineFieldAstNode(field.name, regex.regex))

\* AstNode::add_regex_machine_field_parser
add_regex_machine_field_parser(self, field, regex) ==
    add_child(self, RegexMachineFieldAstNode(regex.regex, field.name))

\* AstNode::add_machine_field_parser
add_machine_field_parser(self, field) ==
    add_regex_machine_field_parser(self, field, field.field_type)

\* `for field in &message.fields { machine_definition_node.add_machine_action_hook(field) }`
RECURSIVE add_machine_action_hooks(_, _)
add_machine_action_hooks(self, fields) ==
    IF fields = <<>>
    THEN self
    ELSE add_machine_action_hooks(
             [self EXCEPT !.children[Len(self.children)] =
                              add_machine_action_hook(@, Head(fields))],
             Tail(fields))

\* `for field in &message.fields { machine_definition_node.add_machine_field_parser(field) }`
RECURSIVE add_machine_field_parsers(_, _)
add_machine_field_parsers(self, fields) ==
    IF fields = <<>>
    THEN self
    ELSE add_machine_field_parsers(
             [self EXCEPT !.children[Len(self.children)] =
                              add_machine_field_parser(@, Head(fields))],
             Tail(fields))

\* the names of the fields: message.fields.iter().map(|f| f.name.clone()).collect()
field_names(fields) == [i \in 1..Len(fields) |-> fields[i].name]

\* a slip in the order: the machine definition is emitted before the struct
add_message_parser_definition_first(self, message) ==
    LET with_header ==
            add_child(self, MachineHeaderAstNode(message.name))
        with_definition ==
            add_machine_field_parsers(
                add_machine_action_hooks(
                    add_child(with_header,
                              MachineDefinitionAstNode(message.name,
                                  field_names(message.fields))),
                    message.fields),
                message.fields)
        with_struct ==
            add_message_struct_members(
                add_child(with_definition, MessageStructAstNode(message.name)),
                message.fields)
    IN  add_child(with_struct, ParsingFunctionAstNode(message.name))

\* AstNode::add_message_parser
add_message_parser(self, message) ==
    LET with_header ==
            add_child(self, MachineHeaderAstNode(message.name))
        with_struct ==
            add_message_struct_members(
                add_child(with_header, MessageStructAstNode(message.name)),
                message.fields)
        with_definition ==
            add_machine_field_parsers(
                add_machine_action_hooks(
                    add_child(with_struct,
                              MachineDefinitionAstNode(message.name,
                                  field_names(message.fields))),
                    message.fields),
                message.fields)
    IN  add_child(with_definition, ParsingFunctionAstNode(message.name))

\* AstNode::from_protocol as a function of the protocol
RECURSIVE add_message_parsers(_, _)
add_message_parsers(self, messages) ==
    IF messages = <<>>
    THEN self
    ELSE add_message_parsers(add_message_parser(self, Head(messages)),
                             Tail(messages))

from_protocol(p) == add_message_parsers(AstNode(Ast_None, <<>>), p.messages)

\* the caller starts with an empty Protocol value
InitBuild ==
    /\ protocol = [messages |-> <<>>, attributes |-> <<>>]
    /\ root = AstNode(Ast_None, <<>>)
    /\ msg_i = 0
    /\ build_pc = "input"
    /\ IdleGen
    /\ IdleRoot
    /\ IdleExt
    /\ IdleMore

\* AstNode::from_protocol is called: `let mut root = AstNode { None, vec![] }`
FromProtocolCall ==
    /\ build_pc = "input"
    /\ root' = AstNode(Ast_None, <<>>)
    /\ msg_i' = 1
    /\ build_pc' = "run"
    /\ UNCHANGED <<moreVars, genVars, protocol, rootVars, extVars>>

\* one turn of `for message in &protocol.messages { root.add_message_parser(message) }`
FromProtocolAddMessageParser ==
    /\ build_pc = "run"
    /\ msg_i <= Len(protocol.messages)
    /\ root' = add_message_parser(root, protocol.messages[msg_i])
    /\ msg_i' = msg_i + 1
    /\ UNCHANGED <<moreVars, genVars, protocol, build_pc, rootVars, extVars>>

\* from_protocol returns `root`
FromProtocolReturn ==
    /\ build_pc = "run"
    /\ msg_i > Len(protocol.messages)
    /\ build_pc' = "done"
    /\ UNCHANGED <<moreVars, genVars, protocol, root, msg_i, rootVars, extVars>>

NextBuild ==
    \/ PushMessage
    \/ PushField
    \/ PushFieldAttribute
    \/ FromProtocolCall
    \/ FromProtocolAddMessageParser
    \/ FromProtocolReturn

SpecBuild == InitBuild /\ [][NextBuild]_vars

----------------------------------------------------------------------------
(* bpir/representation.rs:122-140: Protocol::root_message *)

\* a slip in the test: no attribute is taken for Root
is_Root_never(attribute) == FALSE

\* `if let MessageAttribute::Root = attribute`
is_Root(attribute) == attribute = "Root"

\* a slip in the test: no list is taken for empty
is_empty_never(messages) == FALSE

\* `self.messages.len() == 0`
is_empty(messages) == Len(messages) = 0

InitRoot ==
    /\ protocol = [messages |-> <<>>, attributes |-> <<>>]
    /\ rm_i = 0
    /\ rm_j = 0
    /\ rm_ret = 0
    /\ rm_pc = "input"
    /\ IdleGen
    /\ IdleBuild
    /\ IdleExt
    /\ IdleMore

\* protocol.root_message() is called
RootMessageCall ==
    /\ rm_pc = "input"
    /\ rm_pc' = "called"
    /\ UNCHANGED <<moreVars, genVars, protocol, buildVars, extVars, rm_i, rm_j, rm_ret>>

\* if self.messages.len() == 0 { log::error!(..); panic!(); }
RootMessagePanic ==
    /\ rm_pc = "called"
    /\ is_empty(protocol.messages)
    /\ rm_pc' = "panicked"
    /\ UNCHANGED <<moreVars, genVars, protocol, buildVars, extVars, rm_i, rm_j, rm_ret>>

\* the list is not empty: the loop over the messages is entered
RootMessageEnterLoop ==
    /\ rm_pc = "called"
    /\ ~is_empty(protocol.messages)
    /\ rm_i' = 1
    /\ rm_j' = 1
    /\ rm_pc' = "scan"
    /\ UNCHANGED <<moreVars, genVars, protocol, buildVars, extVars, rm_ret>>

\* one turn of `for attribute in &message.attributes`
RootMessageScanAttribute ==
    /\ rm_pc = "scan"
    /\ rm_i <= Len(protocol.messages)
    /\ rm_j <= Len(protocol.messages[rm_i].attributes)
    /\ IF is_Root(protocol.messages[rm_i].attributes[rm_j])
       THEN /\ rm_ret' = rm_i
            /\ rm_pc' = "returned"
            /\ UNCHANGED rm_j
       ELSE /\ rm_j' = rm_j + 1
            /\ UNCHANGED <<rm_ret, rm_pc>>
    /\ UNCHANGED <<moreVars, genVars, protocol, buildVars, extVars, rm_i>>

\* the attributes of a message are exhausted: the next message
RootMessageNextMessage ==
    /\ rm_pc = "scan"
    /\ rm_i <= Len(protocol.messages)
    /\ rm_j > Len(protocol.messages[rm_i].attributes)
    /\ rm_i' = rm_i + 1
    /\ rm_j' = 1
    /\ UNCHANGED <<moreVars, genVars, protocol, buildVars, extVars, rm_ret, rm_pc>>

\* the messages are exhausted: &self.messages[0]
RootMessageFirst ==
    /\ rm_pc = "scan"
    /\ rm_i > Len(protocol.messages)
    /\ rm_ret' = 1
    /\ rm_pc' = "returned"
    /\ UNCHANGED <<moreVars, genVars, protocol, buildVars, extVars, rm_i, rm_j>>

NextRoot ==
    \/ PushMessage
    \/ PushMessageAttribute
    \/ RootMessageCall
    \/ RootMessagePanic
    \/ RootMessageEnterLoop
    \/ RootMessageScanAttribute
    \/ RootMessageNextMessage
    \/ RootMessageFirst

SpecRoot == InitRoot /\ [][NextRoot]_vars

----------------------------------------------------------------------------
(* bpir/validation.rs: the linters and validate_protocol *)

\* enum MessageFieldLintResult
Ok == [type |-> "Ok"]
Warning(string) == [type |-> "Warning", string |-> string]
Error(string) == [type |-> "Error", string |-> string]

\* a slip in the mock: it rejects every field
MockLinter_lint_field_error(message, field) == Error("mock")

\* MockLinter::lint_field
MockLinter_lint_field(message, field) == Ok

\* `for attribute in &field.attributes { if let MaxLength(_) = attribute {..} }`
has_MaxLength(attributes) ==
    \E a \in 1..Len(attributes) : attributes[a].type = "MaxLength"

\* format!("in message {0} field {1} does not have MaxLength attribute", ..)
RegexFieldMaxLengthLinter_format(message_name, field_name) ==
    "in message " \o message_name \o " field " \o field_name
        \o " does not have MaxLength attribute"

\* a slip in the linter: a bound of 0 is taken for no bound
RegexFieldMaxLengthLinter_lint_field_nonzero(message, field) ==
    IF /\ field.field_type.type = "Regex"
       /\ \E a \in 1..Len(field.attributes) :
             /\ field.attributes[a].type = "MaxLength"
             /\ field.attributes[a].value # 0
    THEN Ok
    ELSE Warning(RegexFieldMaxLengthLinter_format(message.name, field.name))

\* RegexFieldMaxLengthLinter::lint_field
RegexFieldMaxLengthLinter_lint_field(message, field) ==
    IF field.field_type.type = "Regex" /\ has_MaxLength(field.attributes)
    THEN Ok
    ELSE Warning(RegexFieldMaxLengthLinter_format(message.name, field.name))

\* CompositeMessageLinter::new: pending_linters
CompositeMessageLinter_new == <<"MockLinter", "RegexFieldMaxLengthLinter">>

\* a slip in a linter: it reads the first attribute of a field that has none
MessageFieldLint_lint_field_first_attribute(linter, message, field) ==
    CASE linter = "MockLinter" -> MockLinter_lint_field(message, field)
      [] linter = "RegexFieldMaxLengthLinter" ->
            IF field.attributes = <<>>
            THEN Unwind
            ELSE RegexFieldMaxLengthLinter_lint_field(message, field)

\* `linter.lint_field(message, field)` on a Box<dyn MessageFieldLint>
MessageFieldLint_lint_field(linter, message, field) ==
    CASE linter = "MockLinter" -> MockLinter_lint_field(message, field)
      [] linter = "RegexFieldMaxLengthLinter" ->
            RegexFieldMaxLengthLinter_lint_field(message, field)

\* a slip in the report: the result is put in front
push_front(message_lint_results, lint_result) ==
    <<lint_result>> \o message_lint_results

\* protocol_lint_result.message_lint_results.push(..)
push(message_lint_results, lint_result) ==
    Append(message_lint_results, lint_result)

\* CompositeMessageLinter::lint_field: `for linter in &mut self.pending_linters`
\* (self: the pending_linters still to run; lint_result: the list of
\* protocol_lint_result)
RECURSIVE CompositeMessageLinter_lint_field(_, _, _, _)
CompositeMessageLinter_lint_field(self, message, field, lint_result) ==
    IF self = <<>>
    THEN lint_result
    ELSE CompositeMessageLinter_lint_field(
             Tail(self), message, field,
             push(lint_result,
                  MessageFieldLint_lint_field(Head(self), message, field)))

\* CompositeMessageLinter::lint_message: `for field in &message.fields`
RECURSIVE CompositeMessageLinter_lint_message(_, _, _, _)
CompositeMessageLinter_lint_message(self, message, fields, lint_result) ==
    IF fields = <<>>
    THEN lint_result
    ELSE CompositeMessageLinter_lint_message(
             self, message, Tail(fields),
             CompositeMessageLinter_lint_field(self, message, Head(fields),
                                               lint_result))

\* validate_protocol: `for message in &protocol.messages`
RECURSIVE lint_messages(_, _, _)
lint_messages(pending_linters, messages, message_lint_results) ==
    IF messages = <<>>
    THEN message_lint_results
    ELSE lint_messages(
             pending_linters, Tail(messages),
             CompositeMessageLinter_lint_message(pending_linters,
                                                 Head(messages),
                                                 Head(messages).fields,
                                                 message_lint_results))

\* validate_protocol as a function of the protocol
validate_protocol(p) ==
    lint_messages(CompositeMessageLinter_new, p.messages, <<>>)

\* the caller starts with an empty Protocol value
InitLint ==
    /\ protocol = [messages |-> <<>>, attributes |-> <<>>]
    /\ protocol_lint_result = <<>>
    /\ lint_i = 0
    /\ lint_j = 0
    /\ lint_pc = "input"
    /\ IdleGen
    /\ IdleBuild
    /\ IdleRoot
    /\ IdleAdapt
    /\ IdleRaw
    /\ IdleMore

\* validate_protocol is called: CompositeMessageLinter::new(),
\* ProtocolLintResult::default()
ValidateProtocolCall ==
    /\ lint_pc = "input"
    /\ protocol_lint_result' = <<>>
    /\ lint_i' = 1
    /\ lint_j' = 1
    /\ lint_pc' = "run"
    /\ UNCHANGED <<moreVars, genVars, protocol, buildVars, rootVars, adaptVars, rawVars>>

\* one turn of `for field in &message.fields { self.lint_field(..) }`; a
\* linter that panics takes validate_protocol with it
LintMessageLintField ==
    /\ lint_pc = "run"
    /\ lint_i <= Len(protocol.messages)
    /\ lint_j <= Len(protocol.messages[lint_i].fields)
    /\ LET message == protocol.messages[lint_i]
           field == message.fields[lint_j]
       IN  IF \E l \in 1..Len(CompositeMessageLinter_new) :
                 MessageFieldLint_lint_field(CompositeMessageLinter_new[l],
                                             message, field) = Unwind
           THEN /\ lint_pc' = "panicked"
                /\ UNCHANGED <<protocol_lint_result, lint_j>>
           ELSE /\ protocol_lint_result' =
                       CompositeMessageLinter_lint_field(
                           CompositeMessageLinter_new, message, field,
                           protocol_lint_result)
                /\ lint_j' = lint_j + 1
                /\ UNCHANGED lint_pc
    /\ UNCHANGED <<moreVars, genVars, protocol, buildVars, rootVars, lint_i,
                   adaptVars, rawVars>>

\* lint_message returns: the next turn of `for message in &protocol.messages`
LintMessageReturn ==
    /\ lint_pc = "run"
    /\ lint_i <= Len(protocol.messages)
    /\ lint_j > Len(protocol.messages[lint_i].fields)
    /\ lint_i' = lint_i + 1
    /\ lint_j' = 1
    /\ UNCHANGED <<moreVars, genVars, protocol, buildVars, rootVars,
                   protocol_lint_result, lint_pc, adaptVars, rawVars>>

\* validate_protocol returns `protocol_lint_result`
ValidateProtocolReturn ==
    /\ lint_pc = "run"
    /\ lint_i > Len(protocol.messages)
    /\ lint_pc' = "done"
    /\ UNCHANGED <<moreVars, genVars, protocol, buildVars, rootVars,
                   protocol_lint_result, lint_i, lint_j, adaptVars, rawVars>>

NextLint ==
    \/ PushMessage
    \/ PushField
    \/ PushFieldAttribute
    \/ ValidateProtocolCall
    \/ LintMessageLintField
    \/ LintMessageReturn
    \/ ValidateProtocolReturn

SpecLint == InitLint /\ [][NextLint]_vars

----------------------------------------------------------------------------
(* parser_generation/ragel/c.rs:490-517: SourceAstNode::preprocess_common *)

\* common::AstNodeType::ParserStateInitFunction(common::ParserStateInitFunction)
common_ParserStateInitFunction(machine_name) ==
    [type |-> "ParserStateInitFunction", machine_name |-> machine_name]

\* common::AstNodeType::AccessSequence
common_AccessSequence == [type |-> "AccessSequence"]

\* impl From<&mut common::ParsingFunction> for ParsingFunction
ParsingFunction_from(node) == ParsingFunction(node.message_name)

\* impl From<&mut common::MessageStruct> for MessageStruct
MessageStruct_from(node) == MessageStruct(node.message_name)

\* impl From<&mut common::MessageStructMember> for MessageStructMember
MessageStructMember_from(node) ==
    [type |-> "MessageStructMember", name |-> node.name,
     field_base_type |-> node.field_base_type,
     array_length |-> node.array_length]

\* impl From<&mut common::ParserStateInitFunction> for ParserStateInitFunction
ParserStateInitFunction_from(node) == ParserStateInitFunction(node.machine_name)

\* a slip in the rewrite: the node is replaced by a fresh node, its children
\* are lost
preprocess_common_fresh_node(node) ==
    LET kind == node.ast_node_type.type
    IN  CASE kind = "ParsingFunction" ->
                AstNode(RawCode_from(ParsingFunction_from(node.ast_node_type)),
                        <<>>)
          [] kind = "MessageStruct" ->
                AstNode(RawCode_from(MessageStruct_from(node.ast_node_type)),
                        <<>>)
          [] kind = "MessageStructMember" ->
                AstNode(RawCode_from(
                            MessageStructMember_from(node.ast_node_type)),
                        <<>>)
          [] kind = "ParserStateInitFunction" ->
                AstNode(RawCode_from(
                            ParserStateInitFunction_from(node.ast_node_type)),
                        <<>>)
          [] kind = "AccessSequence" ->
                AstNode(RawCode_from_str("access aParserState->;"), <<>>)
          [] OTHER -> node

\* SourceAstNode::preprocess_common: `match common.ast_node_type { .. }`
preprocess_common(node) ==
    LET kind == node.ast_node_type.type
    IN  CASE kind = "ParsingFunction" ->
                [node EXCEPT !.ast_node_type =
                    RawCode_from(ParsingFunction_from(@))]
          [] kind = "MessageStruct" ->
                [node EXCEPT !.ast_node_type =
                    RawCode_from(MessageStruct_from(@))]
          [] kind = "MessageStructMember" ->
                [node EXCEPT !.ast_node_type =
                    RawCode_from(MessageStructMember_from(@))]
          [] kind = "ParserStateInitFunction" ->
                [node EXCEPT !.ast_node_type =
                    RawCode_from(ParserStateInitFunction_from(@))]
          [] kind = "AccessSequence" ->
                [node EXCEPT !.ast_node_type =
                    RawCode_from_str("access aParserState->;")]
          [] OTHER -> node

----------------------------------------------------------------------------
(* parser_generation/ragel/c.rs:518-800: the Generator that writes the text *)
(* of a common AST into the sink itself                                     *)

\* common::AstNodeType::Root
common_Root == [type |-> "Root"]

\* what the calls of the Generator share: the sink, GenerationState.indent,
\* and whether a call has panicked (the statements after it are not reached)
Generation(buf, ind) == [buf_writer |-> buf, indent |-> ind, panicked |-> FALSE]

\* the sink after a writer call, or the panic the call ended in
Generation_written(st, buf) ==
    IF is_Unwinding(buf)
    THEN [st EXCEPT !.buf_writer = buf.buf_writer, !.panicked = TRUE]
    ELSE [st EXCEPT !.buf_writer = buf]

\* utility::string::write_with_indent_or_panic(buf_writer, generation_state.indent, ..)
Generation_write_with_indent(st, lines) ==
    IF st.panicked
    THEN st
    ELSE Generation_written(
             st, write_with_indent_or_panic(st.buf_writer, st.indent, lines))

\* utility::string::write_line_with_indent_or_panic(buf_writer, generation_state.indent, ..)
Generation_write_line(st, line) ==
    IF st.panicked
    THEN st
    ELSE Generation_written(
             st, write_line_with_indent_or_panic(st.buf_writer, st.indent, line))

\* `generation_state.indent += 1;` / `-= 1;` between two writer calls: not
\* reached when the writer before it panicked
Generation_indented(st, by) ==
    IF st.panicked THEN st ELSE [st EXCEPT !.indent = @ + by]

\* node.fields.join(" ")
RECURSIVE join(_)
join(fields) ==
    IF fields = <<>>
    THEN <<>>
    ELSE IF Len(fields) = 1
         THEN as_bytes(fields[1])
         ELSE as_bytes(Head(fields)) \o <<" ">> \o join(Tail(fields))

RECURSIVE Generator_generate_traverse_ast_node(_, _)
RECURSIVE Generator_generate_traverse_ast_node_children(_, _, _)

Generator_generate_machine_header(st, machine_name) ==
    Generation_write_with_indent(st,
        <<"%", "%", "{", "\n", " ", " ", " ", " ", "m", "a", "c", "h", "i",
          "n", "e", " ">>
        \o as_bytes(machine_name) \o
        <<";", "\n", " ", " ", " ", " ", "w", "r", "i", "t", "e", " ", "d",
          "a", "t", "a", ";", "\n", "}", "%", "%", "\n", "\n", "s", "t", "r",
          "u", "c", "t", " ">>
        \o as_bytes(machine_name) \o
        <<"P", "a", "r", "s", "e", "r", "S", "t", "a", "t", "e", " ", "{",
          "\n", " ", " ", " ", " ", "i", "n", "t", " ", "m", "a", "c", "h",
          "i", "n", "e", "I", "n", "i", "t", "R", "e", "q", "u", "i", "r",
          "e", "d", ";", "\n", " ", " ", " ", " ", "i", "n", "t", " ", "c",
          "s", ";", " ", " ", "/", "/", " ", "R", "a", "g", "e", "l", "-",
          "s", "p", "e", "c", "i", "f", "i", "c", " ", "s", "t", "a", "t",
          "e", " ", "v", "a", "r", "i", "a", "b", "l", "e", "\n", "}", ";",
          "\n", "\n", "v", "o", "i", "d", " ", "m", "a", "c", "h", "i", "n",
          "e">>
        \o as_bytes(machine_name) \o
        <<"P", "a", "r", "s", "e", "r", "S", "t", "a", "t", "e", "I", "n",
          "i", "t", "(", "s", "t", "r", "u", "c", "t", " ">>
        \o as_bytes(machine_name) \o
        <<"P", "a", "r", "s", "e", "r", "S", "t", "a", "t", "e", " ", "*",
          "a", "P", "a", "r", "s", "e", "r", "S", "t", "a", "t", "e", ")",
          "\n", "{", "\n", " ", " ", " ", " ", "a", "P", "a", "r", "s", "e",
          "r", "S", "t", "a", "t", "e", "-", ">", "m", "a", "c", "h", "i",
          "n", "e", "I", "n", "i", "t", "R", "e", "q", "u", "i", "r", "e",
          "d", " ", "=", " ", "0", ";", "\n", " ", " ", " ", " ", "a", "P",
          "a", "r", "s", "e", "r", "S", "t", "a", "t", "e", "-", ">", "c",
          "s", " ", "=", " ", "0", ";", "\n", " ", " ", " ", " ", "%", "%",
          " ", "w", "r", "i", "t", "e", " ", "i", "n", "i", "t", ";", "\n",
          "}", "\n">>)

Generator_generate_machine_definition(ast_node, st, node) ==
    LET opened ==
            Generation_write_with_indent(st,
                <<"%", "%", "{", "\n", " ", " ", " ", " ", "m", "a", "c", "h",
                  "i", "n", "e", " ">>
                \o as_bytes(node.machine_name) \o
                <<";", "\n", " ", " ", " ", " ", "a", "c", "c", "e", "s", "s",
                  " ", "a", "P", "a", "r", "s", "e", "r", "S", "t", "a", "t",
                  "e", "-", ">", ";", "\n">>)
        \* generation_state.indent += 1;
        inside ==
            Generator_generate_traverse_ast_node_children(
                ast_node, Generation_indented(opened, 1), 1)
        main ==
            Generation_write_line(inside,
                <<"m", "a", "i", "n", " ", ":", "=", " ">> \o join(node.fields) \o <<";">>)
        \* generation_state.indent -= 1;
        closed ==
            Generation_write_line(Generation_indented(main, -1),
                                  <<"}", "%", "%">>)
    IN  Generation_write_line(closed, <<>>)

Generator_generate_parsing_function(ast_node, st, node) ==
    LET signature ==
            Generation_write_line(st,
                <<"v", "o", "i", "d", " ", "p", "a", "r", "s", "e">>
                \o as_bytes(node.message_name) \o
                <<"(", "s", "t", "r", "u", "c", "t", " ">>
                \o as_bytes(node.message_name) \o
                <<"P", "a", "r", "s", "e", "r", "S", "t", "a", "t", "e", " ",
                  "*", "a", "P", "a", "r", "s", "e", "r", "S", "t", "a", "t",
                  "e", ",", " ", "c", "o", "n", "s", "t", " ", "c", "h", "a",
                  "r", " ", "*", "a", "I", "n", "p", "u", "t", "B", "u", "f",
                  "f", "e", "r", ",", " ", "i", "n", "t", " ", "a", "I", "n",
                  "p", "u", "t", "B", "u", "f", "f", "e", "r", "L", "e", "n",
                  "g", "t", "h", ",", " ", "s", "t", "r", "u", "c", "t", " ">>
                \o as_bytes(node.message_name) \o
                <<" ", "*", "a">>
                \o as_bytes(node.message_name) \o <<")">>)
        opened == Generation_write_line(signature, <<"{">>)
        \* generation_state.indent += 1; (the two backquotes around
        \* aParserState are written as apostrophes: a string of the model cannot
        \* hold a backquote)
        body ==
            Generation_write_with_indent(Generation_indented(opened, 1),
                <<"c", "o", "n", "s", "t", " ", "c", "h", "a", "r", " ", "*",
                  "p", " ", "=", " ", "a", "I", "n", "p", "u", "t", "B", "u",
                  "f", "f", "e", "r", ";", " ", " ", "/", "/", " ", "I", "t",
                  "e", "r", "a", "t", "o", "r", " ", "\"", "b", "e", "g", "i",
                  "n", "\"", " ", "p", "o", "i", "n", "t", "e", "r", " ", "-",
                  "-", " ", "R", "a", "g", "e", "l", "-", "s", "p", "e", "c",
                  "i", "f", "i", "c", " ", "v", "a", "r", "i", "a", "b", "l",
                  "e", " ", "f", "o", "r", " ", "C", " ", "c", "o", "d", "e",
                  " ", "g", "e", "n", "e", "r", "a", "t", "i", "o", "n", "\n",
                  "c", "o", "n", "s", "t", " ", "c", "h", "a", "r", " ", "*",
                  "p", "e", " ", "=", " ", "a", "I", "n", "p", "u", "t", "B",
                  "u", "f", "f", "e", "r", " ", "+", " ", "a", "I", "n", "p",
                  "u", "t", "B", "u", "f", "f", "e", "r", "L", "e", "n", "g",
                  "t", "h", ";", " ", " ", "/", "/", " ", "I", "t", "e", "r",
                  "a", "t", "o", "r", " ", "\"", "e", "n", "d", "\"", " ",
                  "p", "o", "i", "n", "t", "e", "r", " ", "-", "-", " ", "R",
                  "a", "g", "e", "l", "-", "s", "p", "e", "c", "i", "f", "i",
                  "c", " ", "v", "a", "r", "i", "a", "b", "l", "e", " ", "f",
                  "o", "r", " ", "C", " ", "c", "o", "d", "e", " ", "g", "e",
                  "n", "e", "r", "a", "t", "i", "o", "n", "\n", "\n", "/",
                  "/", " ", "P", "a", "r", "s", "e", " ", "s", "t", "a", "r",
                  "t", "i", "n", "g", " ", "f", "r", "o", "m", " ", "t", "h",
                  "e", " ", "s", "t", "a", "t", "e", " ", "d", "e", "f", "i",
                  "n", "e", "d", " ", "i", "n", " ", "'", "a", "P", "a", "r",
                  "s", "e", "r", "S", "t", "a", "t", "e", "'", "\n", "%", "%",
                  " ", "w", "r", "i", "t", "e", " ", "e", "x", "e", "c", ";",
                  "\n">>)
        \* generation_state.indent -= 1;
        closed == Generation_write_line(Generation_indented(body, -1), <<"}">>)
    IN  Generator_generate_traverse_ast_node_children(ast_node, closed, 1)

Generator_generate_message_struct(ast_node, st, node) ==
    LET opened ==
            Generation_write_line(st,
                <<"s", "t", "r", "u", "c", "t", " ">>
                \o as_bytes(node.message_name) \o
                <<"M", "e", "s", "s", "a", "g", "e", " ", "{">>)
        inside ==
            Generator_generate_traverse_ast_node_children(
                ast_node, Generation_indented(opened, 1), 1)
    IN  Generation_write_line(Generation_indented(inside, -1),
                              <<"}", ";">>)

Generator_generate_message_struct_member(st, node) ==
    IF node.field_base_type = "I8"
    THEN Generation_write_line(st,
             <<"u", "i", "n", "t", "8", "_", "t">>
             \o <<" ">> \o as_bytes(node.name)
             \o (IF node.array_length = 0
                 THEN <<>>
                 ELSE <<"[">> \o usize_fmt(node.array_length) \o <<"]">>)
             \o <<";">>)
    \* panic!("Unsupported type {:?}", node.field_base_type)
    ELSE [st EXCEPT !.panicked = TRUE]

Generator_generate_machine_action_hook(st, node) ==
    Generation_write_with_indent(st,
        <<"a", "c", "t", "i", "o", "n", " ">> \o as_bytes(node.name) \o <<" ", "{", "\n", "}", "\n">>)

Generator_generate_regex_machine_field_parser(st, node) ==
    Generation_write_line(st,
        as_bytes(node.name) \o <<" ", "=", " ", "'">> \o as_bytes(node.string_sequence)
        \o <<"'", " ", "@">> \o as_bytes(node.name) \o <<";", " ">>)

\* `for child in &ast_node.children { self.generate_traverse_ast_node(child, ..) }`
Generator_generate_traverse_ast_node_children(ast_node, st, i) ==
    IF i > Len(ast_node.children)
    THEN st
    ELSE Generator_generate_traverse_ast_node_children(
             ast_node,
             Generator_generate_traverse_ast_node(ast_node.children[i], st),
             i + 1)

\* `match ast_node.ast_node_type { .. }`
Generator_generate_traverse_ast_node(ast_node, st) ==
    LET node == ast_node.ast_node_type
    IN  IF st.panicked
        THEN st
        ELSE CASE node.type = "MachineHeader" ->
                     Generator_generate_machine_header(st, node.machine_name)
               [] node.type = "MachineDefinition" ->
                     Generator_generate_machine_definition(ast_node, st, node)
               [] node.type = "Root" ->
                     Generator_generate_traverse_ast_node_children(ast_node, st, 1)
               [] node.type = "ParsingFunction" ->
                     Generator_generate_parsing_function(ast_node, st, node)
               [] node.type = "MessageStruct" ->
                     Generator_generate_message_struct(ast_node, st, node)
               [] node.type = "MessageStructMember" ->
                     Generator_generate_message_struct_member(st, node)
               [] node.type = "RegexMachineField" ->
                     Generator_generate_regex_machine_field_parser(st, node)
               [] node.type = "MachineActionHook" ->
                     Generator_generate_machine_action_hook(st, node)
               \* log::error!("Unmatched node \"{:?}\", panicking!", ..); panic!();
               [] OTHER -> [st EXCEPT !.panicked = TRUE]

\* impl parser_generation::Write for Generator: GenerationState::new(), then
\* the traversal from self.ast
Generator_write(ast, buf) ==
    Generator_generate_traverse_ast_node(ast, Generation(buf, 0))

\* the payloads of the common AST nodes preprocess_common and the Generator
\* are handed
CommonAstNodeTypes ==
    {ParsingFunctionAstNode(n) : n \in ProtocolMessageNames}
    \cup {MessageStructAstNode(n) : n \in ProtocolMessageNames}
    \cup {MessageStructMemberAstNode(shape[1], "I8", l) :
              shape \in FieldShapes, l \in MaxLengthValues}
    \cup {common_ParserStateInitFunction(n) : n \in ProtocolMessageNames}
    \cup {common_AccessSequence}
    \cup {MachineHeaderAstNode(n) : n \in ProtocolMessageNames}
    \cup {MachineDefinitionAstNode(n, <<shape[1]>>) :
              n \in ProtocolMessageNames, shape \in FieldShapes}
    \cup {MachineActionHookAstNode(shape[1]) : shape \in FieldShapes}
    \cup {RegexMachineFieldAstNode(shape[2], shape[1]) : shape \in FieldShapes}
    \cup {Ast_None}
    \cup {common_Root}
    \cup {RawCode_from_str("access aParserState->;")}

\* the children of the node handed to preprocess_common
CommonChildren ==
    {AstNode(MessageStructMemberAstNode("preamble", "I8", 64), <<>>),
     AstNode(common_AccessSequence, <<>>),
     AstNode(MachineDefinitionAstNode("TestMessage", <<"preamble">>),
             <<AstNode(MachineActionHookAstNode("preamble"), <<>>)>>)}

\* apply_replacement_recursive hands preprocess_common a node of the tree, or
\* a caller hands the Generator a tree and a sink
InitAdapt ==
    /\ common \in {AstNode(t, cs) : t \in CommonAstNodeTypes,
                                    cs \in SeqsUpTo(CommonChildren, MaxChildren)}
    /\ adapt_pc = "called"
    /\ protocol = [messages |-> <<>>, attributes |-> <<>>]
    /\ IdleGen
    /\ IdleBuild
    /\ IdleRoot
    /\ IdleLint
    /\ IdleRaw
    /\ IdleSource
    /\ IdleProc
    /\ IdleWriteCall
    /\ sink \in BufWriters

\* SourceAstNode::preprocess_common(&mut common)
PreprocessCommon ==
    /\ adapt_pc = "called"
    /\ common' = preprocess_common(common)
    /\ adapt_pc' = "returned"
    /\ UNCHANGED <<moreVars, genVars, protocol, buildVars, rootVars, lintVars, rawVars>>

\* Generator::from_ragel_ast(&common).write(&mut buf_writer); a panic leaves
\* the sink with what was written before it
GeneratorWrite ==
    /\ adapt_pc = "called"
    /\ LET st == Generator_write(common, sink)
       IN  /\ sink' = st.buf_writer
           /\ adapt_pc' = IF st.panicked THEN "panicked" ELSE "written"
    /\ UNCHANGED <<genVars, protocol, buildVars, rootVars, lintVars, rawVars,
                   common, sourceVars, procVars, code_chunks, write_i, write_pc>>

NextAdapt ==
    \/ PreprocessCommon
    \/ GeneratorWrite

SpecAdapt == InitAdapt /\ [][NextAdapt]_vars

----------------------------------------------------------------------------
(* utility/codegen.rs:43-93: a RawCode is built from a generator, then its *)
(* hooks are called on a CodeGenerationState                               *)

\* a `&str` handed to RawCode::from
str(value) == [type |-> "str", value |-> value]

\* the text literals RawCode::from is given
TextLiterals == {str("access aParserState->;"), str("")}

\* a caller has a generator or a text literal, and a CodeGenerationState
InitRaw ==
    /\ raw_value \in TopNodes \cup TextLiterals
    /\ raw_code = AstNodeType_Root
    /\ raw_pc = "called"
    /\ ambient \in 0..MaxIndent
    /\ indent = ambient
    /\ tree = AstNode(AstNodeType_Root, <<>>)
    /\ stack = <<>>
    /\ result = <<>>
    /\ pc = "idle"
    /\ overflow_checks \in BOOLEAN
    /\ protocol = [messages |-> <<>>, attributes |-> <<>>]
    /\ IdleBuild
    /\ IdleRoot
    /\ IdleLint
    /\ IdleAdapt
    /\ IdleMore

\* RawCode::from(value) for a `&str`
RawCodeFromStr ==
    /\ raw_pc = "called"
    /\ raw_value.type = "str"
    /\ raw_code' = RawCode_from_str(raw_value.value)
    /\ raw_pc' = "built"
    /\ UNCHANGED <<moreVars, genVars, protocol, buildVars, rootVars, lintVars, adaptVars,
                   raw_value>>

\* RawCode::from(&value) for a generator
RawCodeFrom ==
    /\ raw_pc = "called"
    /\ raw_value.type # "str"
    /\ \E built \in {Built(RawCode_from(raw_value))} :
           IF is_Unwinding(built)
           THEN /\ raw_pc' = "panicked"
                /\ UNCHANGED raw_code
           ELSE /\ raw_code' = built
                /\ raw_pc' = "built"
    /\ UNCHANGED <<moreVars, genVars, protocol, buildVars, rootVars, lintVars, adaptVars,
                   raw_value>>

\* raw_code.generate_code_pre_traverse(&mut code_generation_state)
RawCodePreTraverse ==
    /\ raw_pc = "built"
    /\ \E h \in {Built(RawCode_generate_code_pre_traverse(raw_code, indent))} :
           IF is_Unwinding(h)
           THEN /\ raw_pc' = "panicked"
                /\ indent' = h.indent
                /\ UNCHANGED result
           ELSE /\ result' = append(result, h.chunks)
                /\ indent' = h.indent
                /\ raw_pc' = "pre"
    /\ UNCHANGED <<moreVars, tree, ambient, stack, pc, overflow_checks, protocol,
                   buildVars, rootVars, lintVars, adaptVars, raw_value, raw_code>>

\* raw_code.generate_code_post_traverse(&mut code_generation_state)
RawCodePostTraverse ==
    /\ raw_pc = "pre"
    /\ \E h \in {Built(RawCode_generate_code_post_traverse(raw_code, indent))} :
           IF is_Unwinding(h)
           THEN /\ raw_pc' = "panicked"
                /\ indent' = h.indent
                /\ UNCHANGED result
           ELSE /\ result' = append(result, h.chunks)
                /\ indent' = h.indent
                /\ raw_pc' = "post"
    /\ UNCHANGED <<moreVars, tree, ambient, stack, pc, overflow_checks, protocol,
                   buildVars, rootVars, lintVars, adaptVars, raw_value, raw_code>>

NextRaw ==
    \/ RawCodeFromStr
    \/ RawCodeFrom
    \/ RawCodePreTraverse
    \/ RawCodePostTraverse

SpecRaw == InitRaw /\ [][NextRaw]_vars

----------------------------------------------------------------------------
(* parser_generation/ragel/c.rs:432-488: impl From<&Protocol> for           *)
(* SourceAstNode, and the generation of the tree it builds                  *)

\* a slip in the pre hook of a block kind: it raises the indent for what is
\* below it, and its post hook (the default one) does not take that back
common_AstNodeType_generate_code_pre_traverse_indenting(self, ind) ==
    CASE self.type = "RawCode" -> RawCode_generate_code_pre_traverse(self, ind)
      [] self.type = "None" -> Hook(<<>>, ind)
      [] OTHER -> Hook(<<CodeChunk(self.type, ind, 1)>>, ind + 1)

\* the hooks of a common AST payload. The impl for common::AstNodeType is not
\* part of the sources: a RawCode payload is replayed by its own hooks
\* (utility/codegen.rs), the placeholder root emits nothing, and every other
\* kind emits its block at the current depth and leaves the depth alone (the
\* net-zero rule every node kind obeys)
common_AstNodeType_generate_code_pre_traverse(self, ind) ==
    CASE self.type = "RawCode" -> RawCode_generate_code_pre_traverse(self, ind)
      [] self.type = "None" -> Hook(<<>>, ind)
      [] OTHER -> Hook(<<CodeChunk(self.type, ind, 1)>>, ind)

common_AstNodeType_generate_code_post_traverse(self, ind) ==
    CASE self.type = "RawCode" -> RawCode_generate_code_post_traverse(self, ind)
      [] OTHER -> Hook(<<>>, ind)

\* `for subnode in self.iter() { ret.append(&mut subnode.generate_code(..)) }`
RECURSIVE common_AstNode_generate_code_subnodes(_, _)
common_AstNode_generate_code_subnodes(nodes, ind) ==
    IF nodes = <<>>
    THEN Hook(<<>>, ind)
    ELSE Call(common_AstNode_generate_code(Head(nodes), ind),
           LAMBDA first :
         Call(common_AstNode_generate_code_subnodes(Tail(nodes),
                                                    wrapping(first).indent),
           LAMBDA rest :
         Propagate(<<first, rest>>,
             Hook(append(wrapping(first).chunks, wrapping(rest).chunks),
                  wrapping(rest).indent))))

\* impl<T> CodeGeneration for T :: generate_code, T = common::AstNode
common_AstNode_generate_code(node, ind) ==
    Call(common_AstNodeType_generate_code_pre_traverse(node.ast_node_type, ind),
      LAMBDA pre :
    Call(common_AstNode_generate_code_subnodes(node.children,
                                               wrapping(pre).indent),
      LAMBDA sub :
    Call(common_AstNodeType_generate_code_post_traverse(node.ast_node_type,
                                                        wrapping(sub).indent),
      LAMBDA post :
    Propagate(<<pre, sub, post>>,
        Hook(append(append(wrapping(pre).chunks, wrapping(sub).chunks),
                    wrapping(post).chunks),
             wrapping(post).indent)))))

\* a slip in add_child: the new child is put in front of its siblings
AstNode_add_child_in_front(self, ast_node_type) ==
    [self EXCEPT !.children = <<AstNode(ast_node_type, <<>>)>> \o @]

\* c.rs:325-332 AstNode::add_child: self.children.push(AstNode { .. })
AstNode_add_child(self, ast_node_type) ==
    [self EXCEPT !.children = Append(@, AstNode(ast_node_type, <<>>))]

\* `for attribute in &field.attributes { if let MaxLength(..) { length = .. } }`
RECURSIVE SourceAstNode_scan_length(_, _)
SourceAstNode_scan_length(attributes, length) ==
    IF attributes = <<>>
    THEN length
    ELSE SourceAstNode_scan_length(Tail(attributes),
                                   IF Head(attributes).type = "MaxLength"
                                   THEN Head(attributes).value
                                   ELSE length)

\* the block computing `array_length`: `let mut length = 1usize; .. length`
SourceAstNode_array_length(field) ==
    SourceAstNode_scan_length(field.attributes, 1)

\* `for field in &message.fields { message_struct.add_child(..) }`
RECURSIVE SourceAstNode_add_members(_, _)
SourceAstNode_add_members(message_struct, fields) ==
    IF fields = <<>>
    THEN message_struct
    ELSE SourceAstNode_add_members(
             AstNode_add_child(message_struct,
                 AstNodeType(MessageStructMember(
                     Head(fields).name,
                     SourceAstNode_array_length(Head(fields))))),
             Tail(fields))

\* one turn of `for message in &protocol.messages`
SourceAstNode_add_message(ret, message) ==
    LET with_struct ==
            AstNode_add_child(ret, AstNodeType(MessageStruct(message.name)))
        with_members ==
            [with_struct EXCEPT !.children[Len(with_struct.children)] =
                SourceAstNode_add_members(@, message.fields)]
    IN  AstNode_add_child(with_members,
                          AstNodeType(ParserStateStruct(message.name)))

\* common.apply_replacement_recursive(replacement): the method is not part of
\* the sources; the adapter walks the tree once and rewrites every node's
\* payload in place, child order untouched
RECURSIVE apply_replacement_recursive(_)
apply_replacement_recursive(node) ==
    LET replaced == preprocess_common(node)
    IN  [replaced EXCEPT !.children =
            [i \in 1..Len(replaced.children) |->
                apply_replacement_recursive(replaced.children[i])]]

\* the tail of SourceAstNode::from: common::AstNode::from(protocol) (the
\* builder of common.rs), the rewrite, ret.add_child(AstNodeType::Common(..))
SourceAstNode_add_common(ret, p) ==
    AstNode_add_child(ret,
        AstNodeType_Common(apply_replacement_recursive(from_protocol(p))))

\* the caller starts with an empty Protocol value
InitSource ==
    /\ protocol = [messages |-> <<>>, attributes |-> <<>>]
    /\ source = AstNode(AstNodeType_Root, <<>>)
    /\ src_i = 0
    /\ src_pc = "input"
    /\ IdleGen
    /\ IdleBuild
    /\ IdleRoot
    /\ IdleExt
    /\ IdleWrite
    /\ IdleProc

\* SourceAstNode::from is called: `let mut ret = AstNode { Root, vec![] }`
SourceFromCall ==
    /\ src_pc = "input"
    /\ source' = AstNode(AstNodeType_Root, <<>>)
    /\ src_i' = 1
    /\ src_pc' = "run"
    /\ UNCHANGED <<genVars, protocol, buildVars, rootVars, extVars, writeVars,
                   procVars>>

\* one turn of `for message in &protocol.messages`
SourceFromAddMessage ==
    /\ src_pc = "run"
    /\ src_i <= Len(protocol.messages)
    /\ source' = SourceAstNode_add_message(source, protocol.messages[src_i])
    /\ src_i' = src_i + 1
    /\ UNCHANGED <<genVars, protocol, buildVars, rootVars, extVars, writeVars,
                   procVars, src_pc>>

\* after the loop: the common AST is built, rewritten and hung below the
\* root, and SourceAstNode { ast_node: ret } is returned
SourceFromReturn ==
    /\ src_pc = "run"
    /\ src_i > Len(protocol.messages)
    /\ source' = SourceAstNode_add_common(source, protocol)
    /\ src_pc' = "built"
    /\ UNCHANGED <<genVars, protocol, buildVars, rootVars, extVars, writeVars,
                   procVars, src_i>>

NextSource ==
    \/ PushMessage
    \/ PushField
    \/ PushFieldAttribute
    \/ SourceFromCall
    \/ SourceFromAddMessage
    \/ SourceFromReturn

SpecSource == InitSource /\ [][NextSource]_vars

----------------------------------------------------------------------------
(* utility/codegen.rs:190-200: impl<T: CodeGeneration> Write for T :: write, *)
(* and a caller of utility::string::write_line_with_indent_or_panic          *)

\* the bytes of a chunk's code, and the chunks generate_code hands the writer
CodeBytes == {"x", "\r", "\n"}

WriterChunks ==
    {CodeChunk(code, ind, newlines) :
        code \in SeqsUpTo(CodeBytes, MaxCode), ind \in 0..MaxIndent,
        newlines \in 0..1}

\* the chunks that follow the first one
FollowingChunks ==
    {CodeChunk(<<"x", "\n", "x">>, ind, 1) : ind \in 0..MaxIndent}
    \cup {CodeChunk(<<>>, 0, 0)}

\* write is called: self.generate_code(&mut code_generation_state) has
\* returned its chunks; or a caller passes write_line_with_indent_or_panic an
\* indent and a line (held as the one chunk of code_chunks)
InitWrite ==
    /\ \/ /\ write_pc = "chunk"
          /\ code_chunks \in SeqsUpTo(WriterChunks, 1)
                             \cup {<<c, d>> : c \in WriterChunks,
                                              d \in FollowingChunks}
       \/ /\ write_pc = "line"
          /\ code_chunks \in {<<c>> : c \in WriterChunks}
    /\ sink \in BufWriters
    /\ write_i = 1
    /\ protocol = [messages |-> <<>>, attributes |-> <<>>]
    /\ IdleGen
    /\ IdleBuild
    /\ IdleRoot
    /\ IdleExt
    /\ IdleSource
    /\ IdleProc

\* write_with_indent_or_panic(buf_writer, code_chunk.indent, code_chunk.code.as_bytes())
WriteWithIndentOrPanic ==
    /\ write_pc = "chunk"
    /\ write_i <= Len(code_chunks)
    /\ LET buf == write_with_indent_or_panic(sink, code_chunks[write_i].indent,
                                             code_chunks[write_i].code)
       IN  IF is_Unwinding(buf)
           THEN /\ sink' = buf.buf_writer
                /\ write_pc' = "panicked"
           ELSE /\ sink' = buf
                /\ write_pc' = "newlines"
    /\ UNCHANGED <<genVars, protocol, buildVars, rootVars, extVars, sourceVars,
                   procVars, code_chunks, write_i>>

\* write_newlines_or_panic(buf_writer, code_chunk.newlines), the next chunk
WriteNewlinesOrPanic ==
    /\ write_pc = "newlines"
    /\ LET buf == write_newlines_or_panic(sink, code_chunks[write_i].newlines)
       IN  IF is_Unwinding(buf)
           THEN /\ sink' = buf.buf_writer
                /\ write_pc' = "panicked"
                /\ UNCHANGED write_i
           ELSE /\ sink' = buf
                /\ write_i' = write_i + 1
                /\ write_pc' = "chunk"
    /\ UNCHANGED <<genVars, protocol, buildVars, rootVars, extVars, sourceVars,
                   procVars, code_chunks>>

\* the loop is over: write returns
WriteReturn ==
    /\ write_pc = "chunk"
    /\ write_i > Len(code_chunks)
    /\ write_pc' = "done"
    /\ UNCHANGED <<genVars, protocol, buildVars, rootVars, extVars, sourceVars,
                   procVars, code_chunks, sink, write_i>>

\* utility::string::write_line_with_indent_or_panic(buf_writer, indent, line)
WriteLineWithIndentOrPanic ==
    /\ write_pc = "line"
    /\ LET buf == write_line_with_indent_or_panic(sink, code_chunks[1].indent,
                                                  code_chunks[1].code)
       IN  IF is_Unwinding(buf)
           THEN /\ sink' = buf.buf_writer
                /\ write_pc' = "panicked"
           ELSE /\ sink' = buf
                /\ write_pc' = "line_done"
    /\ UNCHANGED <<genVars, protocol, buildVars, rootVars, extVars, sourceVars,
                   procVars, code_chunks, write_i>>

NextWrite ==
    \/ WriteWithIndentOrPanic
    \/ WriteNewlinesOrPanic
    \/ WriteReturn
    \/ WriteLineWithIndentOrPanic

SpecWrite == InitWrite /\ [][NextWrite]_vars

----------------------------------------------------------------------------
(* parser_generation/ragel/procedural_representation.rs:19-67: enum Ast and *)
(* Ast::new_from_protocol                                                   *)

\* Ast::Sequence { blocks }
Ast_Sequence(blocks) == [type |-> "Sequence", blocks |-> blocks]

\* Ast::MachineHeader { machine_name }
Ast_MachineHeader(machine_name) ==
    [type |-> "MachineHeader", machine_name |-> machine_name]

\* Ast::ParsingFunction
Ast_ParsingFunction == [type |-> "ParsingFunction"]

\* root_message: `for message in &self.messages { for attribute .. return
\* message }`, then `&self.messages[0]`
RECURSIVE root_message_scan(_, _)
root_message_scan(messages, i) ==
    IF i > Len(messages)
    THEN messages[1]
    ELSE IF \E j \in 1..Len(messages[i].attributes) :
                is_Root(messages[i].attributes[j])
         THEN messages[i]
         ELSE root_message_scan(messages, i + 1)

\* Protocol::root_message, as the value it returns (Unwind: it panicked)
root_message(p) ==
    IF is_empty(p.messages) THEN Unwind ELSE root_message_scan(p.messages, 1)

\* a slip in add_machine_header: the first message is taken for the root
add_machine_header_first_message(self, p) ==
    IF self.type = "Sequence"
    THEN IF is_empty(p.messages)
         THEN Unwind
         ELSE [self EXCEPT !.blocks = Append(@, Ast_MachineHeader(p.messages[1].name))]
    ELSE Unwind

\* Ast::add_machine_header
add_machine_header(self, p) ==
    IF self.type = "Sequence"
    THEN LET root_message_ == root_message(p)
         IN  IF root_message_ = Unwind
             THEN Unwind
             ELSE [self EXCEPT !.blocks =
                      Append(@, Ast_MachineHeader(root_message_.name))]
    \* log::error!("Unable to add machine header ..."); panic!();
    ELSE Unwind

\* Ast::add_parsing_function
add_parsing_function(self, p) ==
    IF self.type = "Sequence"
    THEN IF root_message(p) = Unwind
         THEN Unwind
         ELSE [self EXCEPT !.blocks = Append(@, Ast_ParsingFunction)]
    ELSE Unwind

\* parser_generation/ragel/c_procedural_representation.rs:39-91: CAst, the C
\* text of a procedural Ast

RECURSIVE CAst_generate_impl(_, _)

\* `for block in blocks { CAst::generate_impl(generation_state, block, buf_writer); }`
RECURSIVE CAst_generate_impl_blocks(_, _, _)
CAst_generate_impl_blocks(blocks, buf, i) ==
    IF i > Len(blocks)
    THEN buf
    ELSE CAst_generate_impl_blocks(blocks, CAst_generate_impl(blocks[i], buf),
                                   i + 1)

\* CAst::generate_impl: `match ast { .. }`
CAst_generate_impl(ast, buf) ==
    CASE ast.type = "Sequence" -> CAst_generate_impl_blocks(ast.blocks, buf, 1)
      [] ast.type = "MachineHeader" ->
            write_fmt(buf,
                <<<<"%", "%", "{", "\n", " ", " ", " ", " ", "m", "a", "c", "h",
                    "i", "n", "e", " ">>,
                  as_bytes(ast.machine_name),
                  <<";", "\n", " ", " ", " ", " ", "w", "r", "i", "t", "e", " ",
                    "d", "a", "t", "a", ";", "\n", "%", "%", "}", "\n", "\n">>>>)
      [] ast.type = "ParsingFunction" ->
            write_fmt(buf,
                <<<<"v", "o", "i", "d", " ", "p", "a", "r", "s", "e", "(", "c",
                    "h", "a", "r", " ", "*", "s", "t", "r", "i", "n", "g", ",",
                    " ", "c", "h", "a", "r", " ", "*", "l", "e", "n", "g", "t",
                    "h", ")", "\n", "{", "\n", "}">>>>)
      \* _ => {}
      [] OTHER -> buf

\* the caller starts with an empty Protocol value and a sink
InitProc ==
    /\ protocol = [messages |-> <<>>, attributes |-> <<>>]
    /\ block = Ast_Sequence(<<>>)
    /\ proc_pc = "input"
    /\ IdleGen
    /\ IdleBuild
    /\ IdleRoot
    /\ IdleExt
    /\ IdleSource
    /\ IdleWriteCall
    /\ sink \in BufWriters

\* new_from_protocol is called: `let mut block = Ast::Sequence { blocks: vec![] }`
NewFromProtocolCall ==
    /\ proc_pc = "input"
    /\ block' = Ast_Sequence(<<>>)
    /\ proc_pc' = "header"
    /\ UNCHANGED <<genVars, protocol, buildVars, rootVars, extVars, sourceVars,
                   writeVars>>

\* block.add_machine_header(protocol); a panic takes new_from_protocol with it
NewFromProtocolAddMachineHeader ==
    /\ proc_pc = "header"
    /\ IF add_machine_header(block, protocol) = Unwind
       THEN /\ proc_pc' = "panicked"
            /\ UNCHANGED block
       ELSE /\ block' = add_machine_header(block, protocol)
            /\ proc_pc' = "function"
    /\ UNCHANGED <<genVars, protocol, buildVars, rootVars, extVars, sourceVars,
                   writeVars>>

\* block.add_parsing_function(protocol); `block` is returned
NewFromProtocolAddParsingFunction ==
    /\ proc_pc = "function"
    /\ IF add_parsing_function(block, protocol) = Unwind
       THEN /\ proc_pc' = "panicked"
            /\ UNCHANGED block
       ELSE /\ block' = add_parsing_function(block, protocol)
            /\ proc_pc' = "returned"
    /\ UNCHANGED <<genVars, protocol, buildVars, rootVars, extVars, sourceVars,
                   writeVars>>

\* CAst { ast: block }.generate(&mut buf_writer): GenerationState::new(), then
\* generate_impl on the whole Ast
CAstGenerate ==
    /\ proc_pc = "returned"
    /\ sink' = CAst_generate_impl(block, sink)
    /\ proc_pc' = "generated"
    /\ UNCHANGED <<genVars, protocol, buildVars, rootVars, extVars, sourceVars,
                   block, code_chunks, write_i, write_pc>>

NextProc ==
    \/ PushMessage
    \/ PushMessageAttribute
    \/ NewFromProtocolCall
    \/ NewFromProtocolAddMachineHeader
    \/ NewFromProtocolAddParsingFunction
    \/ CAstGenerate

SpecProc == InitProc /\ [][NextProc]_vars

----------------------------------------------------------------------------
(* A whole SourceAstNode is built from a protocol and generated:             *)
(* SourceAstNode::from, then c.rs:421-431 SourceAstNode::generate_code       *)

\* the fields, messages and protocols the whole pipeline is run on
WholeFields ==
    {Field("preamble", Regex("\\xfe"), <<>>),
     Field("payload", Regex("[a-z]+"), <<MaxLength(5)>>)}

WholeMessages ==
    {Message(name, fields, <<>>) :
        name \in {"TestMessage"}, fields \in SeqsUpTo(WholeFields, MaxFields)}

WholeProtocols ==
    {[messages |-> messages, attributes |-> <<>>] :
        messages \in SeqsUpTo(WholeMessages, MaxMessages)}

\* the caller has a Protocol value
InitWhole ==
    /\ protocol \in WholeProtocols
    /\ source = AstNode(AstNodeType_Root, <<>>)
    /\ src_i = 0
    /\ src_pc = "input"
    /\ IdleGenCall
    /\ overflow_checks \in BOOLEAN
    /\ IdleBuild
    /\ IdleRoot
    /\ IdleExt
    /\ IdleWrite
    /\ IdleProc

\* Write::write: CodeGenerationState::new(), then SourceAstNode::generate_code
\* calls self.ast_node.generate_code(code_generation_state)
SourceGenerateCodeCall ==
    /\ src_pc = "built"
    /\ tree' = source
    /\ ambient' = 0
    /\ indent' = 0
    /\ stack' = <<Frame(source)>>
    /\ result' = <<>>
    /\ pc' = "run"
    /\ src_pc' = "generating"
    /\ UNCHANGED <<overflow_checks, protocol, buildVars, rootVars, extVars,
                   writeVars, procVars, source, src_i>>

NextWhole ==
    \/ SourceFromCall
    \/ SourceFromAddMessage
    \/ SourceFromReturn
    \/ SourceGenerateCodeCall
    \/ GenPreTraverse
    \/ GenCallSubnode
    \/ GenPostTraverse
    \/ GenReturnToParent
    \/ GenReturn

SpecWhole == InitWhole /\ [][NextWhole]_vars

----------------------------------------------------------------------------
(* Properties of the code generation engine *)

\* section 4.4: generate(node, state) = pre_traverse(node, state)
\*   ++ concat(generate(child, state) for each child in order)
\*   ++ post_traverse(node, state), the state threaded through in that order
RECURSIVE TraversalLaw(_, _)
RECURSIVE TraversalLawAll(_, _)
TraversalLaw(node, ind) ==
    LET pre == generate_code_pre_traverse(node.ast_node_type, ind)
        sub == TraversalLawAll(node.children, pre.indent)
        post == generate_code_post_traverse(node.ast_node_type, sub.indent)
    IN  Hook(pre.chunks \o sub.chunks \o post.chunks, post.indent)

TraversalLawAll(nodes, ind) ==
    IF nodes = <<>>
    THEN Hook(<<>>, ind)
    ELSE LET first == TraversalLaw(Head(nodes), ind)
             rest == TraversalLawAll(Tail(nodes), first.indent)
         IN  Hook(first.chunks \o rest.chunks, rest.indent)

\* C1: net-indent invariant. For every node kind that implements the hooks
\* (the struct kinds, the AstNodeType dispatch over them, RawCode) and every
\* ambient indent d, pre_traverse, then all children, then post_traverse
\* leaves the indent at d.
C1_NetIndentInvariant == pc = "done" => indent = ambient

\* C2: traversal law. generate_code returns the chunks of pre_traverse, then
\* those of generate_code of each child in child order, then those of
\* post_traverse, nothing dropped, duplicated or reordered, with one indent
\* state threaded through.
C2_TraversalLaw ==
    pc = "done" =>
        /\ result = TraversalLaw(tree, ambient).chunks
        /\ indent = TraversalLaw(tree, ambient).indent

\* a finished generation of a node with two subtrees, one of them nested,
\* where the node and its subtrees all contributed chunks
C2_Witness ==
    /\ pc = "done"
    /\ Len(tree.children) = 2
    /\ tree.children[1].children # <<>>
    /\ tree.children[1] # tree.children[2]
    /\ generate_code_post_traverse(tree.ast_node_type, ambient + 1).chunks # <<>>
    /\ Len(result) > 4

\* C3: raw-code replay equivalence. For each cached kind (ParsingFunction,
\* MessageStruct, MessageStructMember, ParserStateInitFunction), any children
\* and any ambient indent, the node's own hooks around the children and the
\* hooks of RawCode::from(&node) around the same children give the same
\* chunk sequence and the same final indent.
C3_RawCodeReplayEquivalence ==
    pc = "done" =>
        /\ tree.ast_node_type \in CachedNodes =>
              LET raw == TraversalLaw(
                             AstNode(RawCode_from(tree.ast_node_type),
                                     tree.children), ambient)
              IN  result = raw.chunks /\ indent = raw.indent
        /\ \A n \in CachedNodes :
              tree.ast_node_type = RawCode_from(n) =>
                  LET direct == TraversalLaw(AstNode(n, tree.children), ambient)
                  IN  result = direct.chunks /\ indent = direct.indent

\* a replayed ParserStateInitFunction (chunks before and after the children,
\* indent moved in between) generated at a non-zero ambient indent
C3_Witness ==
    /\ pc = "done"
    /\ tree.ast_node_type = RawCode_from(ParserStateInitFunction("Msg"))
    /\ tree.ast_node_type.indent_increment = 1
    /\ tree.children # <<>>
    /\ ambient > 0

\* the variants of AstNodeType that the two hooks have no arm of their own for
NoDedicatedArm(t) ==
    /\ t.type = "AstNodeType"
    /\ t.variant \notin {"ParsingFunction", "ParserStateStruct",
                         "ParserStateInitFunction", "MessageStruct",
                         "MessageStructMember", "Common"}

\* C4: an unmatched node kind reaching the generator is fatal and never
\* skipped: once the hook of a C backend AstNode without a dedicated arm
\* (Root) has been called, generation has terminated fatally; it neither
\* goes on to the children nor returns.
C4_UnmatchedNodeIsFatal ==
    /\ \A i \in 1..Len(stack) :
          (NoDedicatedArm(stack[i].node.ast_node_type) /\ stack[i].at # "pre")
              => pc = "panicked"
    /\ ~(pc = "done" /\ NoDedicatedArm(tree.ast_node_type))

----------------------------------------------------------------------------
(* Properties of the common AST builder *)

\* the top-level children from_protocol emits for message i
HeaderOf(i) == root.children[4 * (i - 1) + 1]
StructOf(i) == root.children[4 * (i - 1) + 2]
DefinitionOf(i) == root.children[4 * (i - 1) + 3]
FunctionOf(i) == root.children[4 * (i - 1) + 4]

IsMaxLength(attribute) == attribute.type = "MaxLength"

\* the resolved MaxLength of a field as the specification words it: the
\* explicit value (of the last occurrence) if the attribute is present,
\* else the default
ResolvedMaxLength(field) ==
    LET given == SelectSeq(field.attributes, IsMaxLength)
    IN  IF given = <<>>
        THEN get_default_value
        ELSE given[Len(given)].value

\* C5: for every message, the MessageStruct node has exactly one
\* MessageStructMember child per field, in field order, carrying the field's
\* name and an array length equal to the explicitly given MaxLength whenever
\* the attribute is present (0 included), and 64 only when it is absent.
C5_StructMembersCarryResolvedMaxLength ==
    build_pc = "done" =>
        \A i \in 1..Len(protocol.messages) :
            LET message == protocol.messages[i]
            IN  /\ StructOf(i).ast_node_type = MessageStructAstNode(message.name)
                /\ Len(StructOf(i).children) = Len(message.fields)
                /\ \A k \in 1..Len(message.fields) :
                      StructOf(i).children[k] =
                          AstNode(MessageStructMemberAstNode(
                                      message.fields[k].name, "I8",
                                      ResolvedMaxLength(message.fields[k])),
                                  <<>>)

\* C6: when a field carries several MaxLength attributes, the array length
\* of its member is the value of the last one, whatever the values.
C6_LastMaxLengthWins ==
    build_pc = "done" =>
        \A i \in 1..Len(protocol.messages) :
            \A k \in 1..Len(protocol.messages[i].fields) :
                LET attributes == protocol.messages[i].fields[k].attributes
                IN  Len(attributes) >= 2 =>
                        StructOf(i).children[k].ast_node_type.array_length =
                            attributes[Len(attributes)].value

\* C7: from_protocol yields a root placeholder whose children are, message by
\* message in declaration order, MachineHeader, MessageStruct,
\* MachineDefinition, ParsingFunction, each with the message's name: 4 * N
\* children for N messages, the ParsingFunction without children.
C7_FourNodesPerMessage ==
    build_pc = "done" =>
        /\ root.ast_node_type = Ast_None
        /\ Len(root.children) = 4 * Len(protocol.messages)
        /\ \A i \in 1..Len(protocol.messages) :
              LET name == protocol.messages[i].name
              IN  /\ HeaderOf(i).ast_node_type = MachineHeaderAstNode(name)
                  /\ StructOf(i).ast_node_type = MessageStructAstNode(name)
                  /\ DefinitionOf(i).ast_node_type.type = "MachineDefinition"
                  /\ DefinitionOf(i).ast_node_type.machine_name = name
                  /\ FunctionOf(i) = AstNode(ParsingFunctionAstNode(name), <<>>)

\* a lowered protocol of two messages with different names, the first with
\* fields
C7_Witness ==
    /\ build_pc = "done"
    /\ Len(protocol.messages) = 2
    /\ protocol.messages[1].name # protocol.messages[2].name
    /\ protocol.messages[1].fields # <<>>
    /\ Len(root.children) = 8

\* C8: for a message of F fields the MachineDefinition node has 2 * F
\* children: the F MachineActionHooks in field order, then the F
\* RegexMachineFields in field order, each named after its field, the matcher
\* carrying the field's regex unchanged; the node's fields list is the field
\* names in declaration order.
C8_MachineDefinitionChildren ==
    build_pc = "done" =>
        \A i \in 1..Len(protocol.messages) :
            LET fields == protocol.messages[i].fields
                F == Len(fields)
                definition == DefinitionOf(i)
            IN  /\ Len(definition.children) = 2 * F
                /\ Len(definition.ast_node_type.fields) = F
                /\ \A k \in 1..F :
                      /\ definition.children[k] =
                            AstNode(MachineActionHookAstNode(fields[k].name), <<>>)
                      /\ definition.children[F + k] =
                            AstNode(RegexMachineFieldAstNode(
                                        fields[k].field_type.regex,
                                        fields[k].name), <<>>)
                      /\ definition.ast_node_type.fields[k] = fields[k].name

\* a lowered message with two fields of different name and pattern
C8_Witness ==
    /\ build_pc = "done"
    /\ \E i \in 1..Len(protocol.messages) :
          /\ Len(protocol.messages[i].fields) = 2
          /\ protocol.messages[i].fields[1].name #
                 protocol.messages[i].fields[2].name
          /\ Len(DefinitionOf(i).children) = 4

\* the protocol cut after its first k messages
FirstMessages(k) == [protocol EXCEPT !.messages = SubSeq(@, 1, k)]

\* the protocol made of message k alone
OnlyMessage(k) == [protocol EXCEPT !.messages = <<protocol.messages[k]>>]

\* C9: appending a message leaves the generated part untouched: the AST of
\* m1..mk+1 starts with the 4 * k top-level subtrees of the AST of m1..mk,
\* followed by the subtrees of mk+1; from one to two messages the number of
\* top-level subtrees doubles.
C9_AppendKeepsPrefix ==
    build_pc = "done" =>
        \A k \in 0..(Len(protocol.messages) - 1) :
            LET shorter == from_protocol(FirstMessages(k)).children
                longer == IF k + 1 = Len(protocol.messages)
                          THEN root.children
                          ELSE from_protocol(FirstMessages(k + 1)).children
            IN  /\ Len(shorter) = 4 * k
                /\ Len(longer) = 4 * (k + 1)
                /\ SubSeq(longer, 1, 4 * k) = shorter
                /\ SubSeq(longer, 4 * k + 1, 4 * k + 4) =
                       from_protocol(OnlyMessage(k + 1)).children

\* a lowered protocol whose second message differs from the first
C9_Witness ==
    /\ build_pc = "done"
    /\ Len(protocol.messages) = 2
    /\ protocol.messages[1] # protocol.messages[2]
    /\ protocol.messages[2].fields # <<>>
    /\ Len(root.children) = 2 * Len(from_protocol(FirstMessages(1)).children)
    /\ SubSeq(root.children, 1, 4) # SubSeq(root.children, 5, 8)

----------------------------------------------------------------------------
(* Properties of Protocol::root_message *)

HasRoot(message) ==
    \E j \in 1..Len(message.attributes) : message.attributes[j] = "Root"

RootMessages == {i \in 1..Len(protocol.messages) : HasRoot(protocol.messages[i])}

\* C10: for a protocol with at least one message, root_message returns the
\* first message in declaration order that carries Root, and the first
\* declared message when none does; never a message without Root while some
\* message carries it.
C10_RootMessage ==
    (rm_pc = "returned" /\ Len(protocol.messages) >= 1) =>
        /\ RootMessages # {} =>
              /\ rm_ret \in RootMessages
              /\ \A i \in RootMessages : rm_ret <= i
        /\ RootMessages = {} => rm_ret = 1

\* root_message returned the second message: the first carries no Root
C10_Witness ==
    /\ rm_pc = "returned"
    /\ rm_ret = 2
    /\ ~HasRoot(protocol.messages[1])

\* root_message returned the first message of a protocol without any Root
C10_WitnessNoRoot ==
    /\ rm_pc = "returned"
    /\ Len(protocol.messages) = 2
    /\ RootMessages = {}
    /\ rm_ret = 1

\* C11: root_message on a protocol with zero messages ends in a panic and
\* returns no message.
C11_EmptyProtocolPanics ==
    (Len(protocol.messages) = 0 /\ rm_pc \notin {"idle", "input", "called"}) =>
        (rm_pc = "panicked" /\ rm_ret = 0)

\* root_message was called on the empty protocol and panicked
C11_Witness ==
    /\ protocol.messages = <<>>
    /\ rm_pc = "panicked"
    /\ rm_ret = 0

\* C12: a protocol with zero messages makes the generation pass fail fast:
\* lowering it with from_protocol terminates with a fatal error instead of
\* returning a tree.
C12_EmptyProtocolFailsFast ==
    build_pc = "done" => protocol.messages # <<>>

----------------------------------------------------------------------------
(* Properties of the validation engine *)

\* the number of fields declared before message i
FieldsBefore(i) ==
    Sum([m \in 1..(i - 1) |-> Len(protocol.messages[m].fields)])

\* the place in a report of the result of linter l on field k of message i
PlaceOf(i, k, l) ==
    Len(CompositeMessageLinter_new) * (FieldsBefore(i) + k - 1) + l

\* the fields of the protocol, as <<message, field>> positions
FieldPlaces ==
    {<<i, k>> \in (1..Len(protocol.messages)) \X (1..MaxFields + 1) :
        k <= Len(protocol.messages[i].fields)}

LacksMaxLength(field) ==
    \A a \in 1..Len(field.attributes) : field.attributes[a].type # "MaxLength"

Warnings(report) == {n \in 1..Len(report) : report[n].type = "Warning"}

\* C13: for every Regex field the MaxLength linter yields Ok when the field
\* has at least one MaxLength attribute, and otherwise a Warning whose text
\* names the message and the field; the report of validate_protocol holds
\* exactly one Warning per Regex field lacking MaxLength and none for a
\* field that has it.
C13_MaxLengthLinter ==
    lint_pc = "done" =>
        /\ Len(protocol_lint_result) =
               Len(CompositeMessageLinter_new) * NumFields
        /\ \A place \in FieldPlaces :
              LET message == protocol.messages[place[1]]
                  field == message.fields[place[2]]
                  entry == protocol_lint_result[PlaceOf(place[1], place[2], 2)]
              IN  IF LacksMaxLength(field)
                  THEN entry = [type |-> "Warning",
                                string |-> "in message " \o message.name
                                    \o " field " \o field.name
                                    \o " does not have MaxLength attribute"]
                  ELSE entry = [type |-> "Ok"]
        /\ Cardinality(Warnings(protocol_lint_result)) =
               Cardinality({place \in FieldPlaces :
                   LacksMaxLength(
                       protocol.messages[place[1]].fields[place[2]])})

\* a validated message with a field that has the attribute (of value 0) and
\* one that lacks it
C13_Witness ==
    /\ lint_pc = "done"
    /\ \E i \in 1..Len(protocol.messages) :
          /\ Len(protocol.messages[i].fields) = 2
          /\ protocol.messages[i].fields[1].attributes = <<MaxLength(0)>>
          /\ protocol.messages[i].fields[2].attributes = <<>>
    /\ Cardinality(Warnings(protocol_lint_result)) = 1

\* C14: validate_protocol invokes every linter exactly once on every field
\* of every message and appends every result, Ok included: the report has
\* (number of linters) x (number of fields) entries, ordered by message,
\* then field, then linter.
C14_ReportOrder ==
    lint_pc = "done" =>
        /\ Len(protocol_lint_result) =
               Len(CompositeMessageLinter_new) * NumFields
        /\ \A place \in FieldPlaces :
              \A l \in 1..Len(CompositeMessageLinter_new) :
                  protocol_lint_result[PlaceOf(place[1], place[2], l)] =
                      MessageFieldLint_lint_field(
                          CompositeMessageLinter_new[l],
                          protocol.messages[place[1]],
                          protocol.messages[place[1]].fields[place[2]])

\* a report over two messages with one field each, whose Warnings differ
C14_Witness ==
    /\ lint_pc = "done"
    /\ Len(protocol.messages) = 2
    /\ Len(protocol.messages[1].fields) = 1
    /\ Len(protocol.messages[2].fields) = 1
    /\ Len(protocol_lint_result) = 4
    /\ protocol_lint_result[1] = Ok
    /\ protocol_lint_result[2].type = "Warning"
    /\ protocol_lint_result[4].type = "Warning"
    /\ protocol_lint_result[2] # protocol_lint_result[4]

\* C15: the report returned by validate_protocol contains no Ok entries,
\* only Warning and Error results.
C15_NoOkInReport ==
    lint_pc = "done" =>
        \A n \in 1..Len(protocol_lint_result) :
            protocol_lint_result[n].type # "Ok"

\* C16: validation never aborts: on every protocol (zero messages, a message
\* with zero fields, fields without attributes included) validate_protocol
\* goes on to return a report, and it leaves the protocol unchanged.
C16_ValidationNeverAborts ==
    [][/\ lint_pc' # "panicked"
       /\ lint_pc \in {"run", "done"} => protocol' = protocol
       /\ lint_pc' = "done" =>
              Len(protocol_lint_result') =
                  Len(CompositeMessageLinter_new) * NumFields]_vars

\* validate_protocol returned on a protocol with a message without fields
\* and a message whose field has no attributes
C16_Witness ==
    /\ lint_pc = "done"
    /\ Len(protocol.messages) = 2
    /\ protocol.messages[1].fields = <<>>
    /\ Len(protocol.messages[2].fields) = 1
    /\ protocol.messages[2].fields[1].attributes = <<>>

\* validate_protocol returned on the protocol without messages
C16_WitnessNoMessages ==
    /\ lint_pc = "done"
    /\ protocol.messages = <<>>
    /\ protocol_lint_result = <<>>

\* the protocol with the attributes of field k of message i removed
WithoutAttributes(i, k) ==
    [protocol EXCEPT !.messages[i].fields[k].attributes = <<>>]

\* the entries of a report about field k of message i
EntriesOf(report, i, k) ==
    [l \in 1..Len(CompositeMessageLinter_new) |-> report[PlaceOf(i, k, l)]]

\* C17: a message whose Regex field has MaxLength{value: 64} and the same
\* message without the attribute lower to identical common ASTs (array
\* length 64 in both), while the reports differ: no Warning for the field
\* with the attribute, exactly one for the field without it.
C17_ExplicitDefaultSameAst ==
    lint_pc = "done" =>
        \A place \in FieldPlaces :
            LET i == place[1]
                k == place[2]
                with == from_protocol(protocol)
                without == from_protocol(WithoutAttributes(i, k))
            IN  protocol.messages[i].fields[k].attributes = <<MaxLength(64)>> =>
                    /\ with = without
                    /\ with.children[4 * (i - 1) + 2].children[k]
                           .ast_node_type.array_length = 64
                    /\ Warnings(EntriesOf(protocol_lint_result, i, k)) = {}
                    /\ Cardinality(Warnings(EntriesOf(
                           validate_protocol(WithoutAttributes(i, k)), i, k))) = 1

\* a validated protocol with a field whose only attribute is MaxLength{64}
\* next to a field without attributes
C17_Witness ==
    /\ lint_pc = "done"
    /\ \E i \in 1..Len(protocol.messages) :
          /\ Len(protocol.messages[i].fields) = 2
          /\ protocol.messages[i].fields[1].attributes = <<MaxLength(64)>>
          /\ protocol.messages[i].fields[2].attributes = <<>>
          /\ Warnings(EntriesOf(protocol_lint_result, i, 1)) = {}

----------------------------------------------------------------------------
(* Properties of RawCode *)

\* recorded chunks as the claim has them replayed at ambient indent d: the
\* indent moved by d, code and newlines as recorded
ReplayedAt(chunks, d) ==
    [n \in 1..Len(chunks) |->
        [code |-> chunks[n].code,
         indent |-> chunks[n].indent + d,
         newlines |-> chunks[n].newlines]]

----------------------------------------------------------------------------
(* Properties of the backend rewrite *)

\* the kinds the C backend has a rendering for
RewrittenKinds ==
    {"ParsingFunction", "MessageStruct", "MessageStructMember",
     "ParserStateInitFunction", "AccessSequence"}

\* C19: the backend rewrite of one common-AST node changes only the payload
\* kind of that node: ParsingFunction, MessageStruct, MessageStructMember,
\* ParserStateInitFunction and AccessSequence become RawCode (AccessSequence
\* always the same fixed fragment), every other kind is left exactly as it
\* was, and the node's list of children is unchanged in all cases.
C19_RewriteKeepsShape ==
    [][adapt_pc = "called" /\ adapt_pc' = "returned" =>
          /\ common'.children = common.children
          /\ common.ast_node_type.type \in RewrittenKinds =>
                common'.ast_node_type.type = "RawCode"
          /\ common.ast_node_type.type = "AccessSequence" =>
                common'.ast_node_type =
                    [type |-> "RawCode",
                     code_chunk_pre_traverse |->
                         <<[code |-> "access aParserState->;", indent |-> 0,
                            newlines |-> 1]>>,
                     code_chunk_post_traverse |-> <<>>,
                     indent_increment |-> 0]
          /\ common.ast_node_type.type \notin RewrittenKinds =>
                common'.ast_node_type = common.ast_node_type]_vars

\* a MessageStruct node with two different children after its rewrite
C19_Witness ==
    /\ adapt_pc = "returned"
    /\ common.ast_node_type = RawCode_from(MessageStruct("TestMessage"))
    /\ Len(common.children) = 2
    /\ common.children[1] # common.children[2]
    /\ common.children[2].children # <<>>

\* a MachineDefinition node with children after the rewrite left it alone
C19_WitnessUntouched ==
    /\ adapt_pc = "returned"
    /\ common.ast_node_type.type = "MachineDefinition"
    /\ common.children # <<>>

----------------------------------------------------------------------------
(* Properties of RawCode::from *)

\* C20: a RawCode built from any generator implementing the two hooks
\* records the indent change its pre-traverse hook produced starting from
\* depth 0, and the generator's pre and post chunks of a traversal started at
\* depth 0; also for a generator whose post hook does not undo its pre hook.
C20_RecordedDelta ==
    (raw_pc \in {"built", "pre", "post"} /\ raw_value.type # "str") =>
        LET pre == generate_code_pre_traverse(raw_value, 0)
            post == generate_code_post_traverse(raw_value, pre.indent)
        IN  /\ raw_code.code_chunk_pre_traverse = pre.chunks
            /\ raw_code.code_chunk_post_traverse = post.chunks
            /\ raw_code.indent_increment = pre.indent - 0

\* C21: the indent depth is non-negative in every generation state:
\* increment_indent adds the (possibly negative) increment, except that a
\* decrement larger than the current indent gives 0; so a RawCode with a
\* negative recorded increment replayed at an ambient depth smaller than its
\* magnitude does not restore the ambient depth afterwards.
C21_IndentNeverNegative ==
    LET increment == raw_code.indent_increment
        clamped == increment < 0 /\ ambient < -increment
    IN  /\ indent >= 0
        /\ raw_pc = "pre" =>
              indent = (IF clamped THEN 0 ELSE ambient + increment)
        /\ (raw_pc = "post" /\ clamped) =>
              (indent = -increment /\ indent # ambient)
        /\ (raw_pc = "post" /\ ~clamped) => indent = ambient

\* a RawCode of recorded increment -1 after its replay at ambient depth 0
C21_Witness ==
    /\ raw_pc = "post"
    /\ raw_code.indent_increment = -1
    /\ ambient = 0
    /\ indent = 1

\* C22: a RawCode built from a text literal holds exactly one pre-traverse
\* chunk (the text, relative indent 0, one newline), no post-traverse chunk
\* and an increment of 0; replayed at ambient depth d it emits exactly one
\* chunk, at indent d, and leaves the indent state at d.
C22_TextLiteral ==
    (raw_value.type = "str" /\ raw_pc \in {"built", "pre", "post"}) =>
        /\ raw_code =
               [type |-> "RawCode",
                code_chunk_pre_traverse |->
                    <<[code |-> raw_value.value, indent |-> 0,
                       newlines |-> 1]>>,
                code_chunk_post_traverse |-> <<>>,
                indent_increment |-> 0]
        /\ raw_pc \in {"pre", "post"} =>
              /\ result = <<[code |-> raw_value.value, indent |-> ambient,
                             newlines |-> 1]>>
              /\ indent = ambient

\* the fixed fragment of the backend after its replay at a depth above 0
C22_Witness ==
    /\ raw_value = str("access aParserState->;")
    /\ raw_pc = "post"
    /\ ambient > 0
    /\ Len(result) = 1
    /\ result[1].indent = ambient

\* the payloads of `n` are those preprocess_common gives the payloads of `m`,
\* node by node, with the same children in the same order
RECURSIVE IsRewriteOf(_, _)
IsRewriteOf(n, m) ==
    /\ n.ast_node_type = preprocess_common(AstNode(m.ast_node_type, <<>>)).ast_node_type
    /\ Len(n.children) = Len(m.children)
    /\ \A i \in 1..Len(m.children) : IsRewriteOf(n.children[i], m.children[i])

\* C23: the tree SourceAstNode::from builds for a protocol of N messages has a
\* Root with exactly 2*N + 1 children: for each message, in declaration order,
\* a MessageStruct (one MessageStructMember child per field, in field order)
\* immediately followed by a ParserStateStruct named after the message, and
\* last a single Common node holding the rewritten common AST of the protocol.
C23_SourceTreeShape ==
    src_pc \in {"built", "generating"} =>
        LET N == Len(protocol.messages)
            cs == source.children
        IN  /\ source.ast_node_type = AstNodeType_Root
            /\ Len(cs) = 2 * N + 1
            /\ \A i \in 1..N :
                  LET message == protocol.messages[i]
                      message_struct == cs[2 * i - 1]
                  IN  /\ message_struct.ast_node_type.variant = "MessageStruct"
                      /\ message_struct.ast_node_type.node.message_name =
                             message.name
                      /\ Len(message_struct.children) = Len(message.fields)
                      /\ \A k \in 1..Len(message.fields) :
                            LET member == message_struct.children[k]
                            IN  /\ member.ast_node_type.variant =
                                       "MessageStructMember"
                                /\ member.ast_node_type.node.name =
                                       message.fields[k].name
                                /\ member.children = <<>>
                      /\ cs[2 * i] =
                             AstNode(AstNodeType(ParserStateStruct(message.name)),
                                     <<>>)
            /\ cs[2 * N + 1].ast_node_type.variant = "Common"
            /\ cs[2 * N + 1].children = <<>>
            /\ IsRewriteOf(cs[2 * N + 1].ast_node_type.node,
                           from_protocol(protocol))

\* the tree of two messages, the first with two different fields: five
\* children below the root
C23_Witness ==
    /\ src_pc = "built"
    /\ Len(protocol.messages) = 2
    /\ Len(protocol.messages[1].fields) = 2
    /\ protocol.messages[1].fields[1].name # protocol.messages[1].fields[2].name
    /\ protocol.messages[1].name # protocol.messages[2].name
    /\ Len(source.children) = 5

\* four spaces per level
Pad(level) == [i \in 1..(4 * level) |-> " "]

\* the code with the indent put in front of it and in front of every byte
\* that follows a CR or LF and is neither
RECURSIVE Indented(_, _, _)
Indented(code, level, i) ==
    IF i > Len(code)
    THEN <<>>
    ELSE (IF i = 1 \/ (code[i - 1] \in {"\r", "\n"} /\ code[i] \notin {"\r", "\n"})
          THEN Pad(level)
          ELSE <<>>)
         \o <<code[i]>> \o Indented(code, level, i + 1)

\* the text of the first k chunks, the last of them with or without its
\* trailing newlines
RECURSIVE TextOf(_, _, _)
TextOf(list, k, last_newlines) ==
    IF k = 0
    THEN <<>>
    ELSE TextOf(list, k - 1, TRUE)
         \o (IF list[k].code = <<>>
             THEN Pad(list[k].indent)
             ELSE Indented(list[k].code, list[k].indent, 1))
         \o (IF last_newlines THEN [i \in 1..list[k].newlines |-> "\n"] ELSE <<>>)

\* C24: the writer turns the chunk sequence into text in sequence order: per
\* chunk the indent (4 spaces per level), then the code bytes unchanged and in
\* order, the same indent again before every line that follows a run of CR/LF
\* inside the code; without the inserted indents the output of a chunk is its
\* code.
C24_WriterText ==
    /\ write_pc = "chunk" => Text(sink) = TextOf(code_chunks, write_i - 1, TRUE)
    /\ write_pc = "newlines" =>
          /\ Text(sink) = TextOf(code_chunks, write_i, FALSE)
          /\ LET before == Len(TextOf(code_chunks, write_i - 1, TRUE))
                 written == SubSeq(Text(sink), before + 1, Len(Text(sink)))
                 IsCode(byte) == byte # " "
             IN  SelectSeq(written, IsCode) = code_chunks[write_i].code
    /\ write_pc = "done" =>
          Text(sink) = TextOf(code_chunks, Len(code_chunks), TRUE)

\* the name of the message root_message() is defined to return: the first
\* declared message carrying Root, the first declared message when none does
RootName ==
    IF RootMessages = {}
    THEN protocol.messages[1].name
    ELSE protocol.messages[CHOOSE i \in RootMessages :
                               \A k \in RootMessages : i <= k].name

\* C25: for a protocol with at least one message, Ast::new_from_protocol
\* returns a Sequence of exactly two blocks, a MachineHeader named after the
\* protocol's root message and then a ParsingFunction; for a protocol without
\* messages it fails fatally and returns nothing.
C25_NewFromProtocol ==
    /\ proc_pc = "returned" =>
          /\ Len(protocol.messages) >= 1
          /\ block = [type |-> "Sequence",
                      blocks |-> <<[type |-> "MachineHeader",
                                    machine_name |-> RootName],
                                   [type |-> "ParsingFunction"]>>]
    /\ proc_pc = "panicked" =>
          /\ Len(protocol.messages) = 0
          /\ block.blocks = <<>>
    /\ (proc_pc = "function" \/ proc_pc = "returned") =>
          Len(protocol.messages) >= 1

\* the sequence of a protocol whose second message is the root
C25_Witness ==
    /\ proc_pc = "returned"
    /\ Len(protocol.messages) = 2
    /\ RootMessages = {2}
    /\ protocol.messages[1].name # protocol.messages[2].name
    /\ block.blocks[1].machine_name = protocol.messages[2].name

\* the call on an empty protocol has panicked
C25_WitnessEmpty == proc_pc = "panicked" /\ protocol.messages = <<>>

\* C26: for every variant of the C backend's AstNodeType the dispatching hooks
\* yield the chunks and the indent change of the wrapped node's own hooks: a
\* generation through the dispatch is the generation of the wrapped node
\* itself; a ParserStateInitFunction emits its signature and opening brace
\* once and is closed by one closing brace at the ambient indent.
C26_DispatchDelegates ==
    (/\ pc = "done"
     /\ tree.ast_node_type.type = "AstNodeType"
     /\ tree.ast_node_type.variant # "Root") =>
        LET own == TraversalLaw(AstNode(tree.ast_node_type.node, tree.children),
                                ambient)
        IN  /\ result = own.chunks
            /\ indent = own.indent

\* C27: for the same field, the array length of the MessageStructMember the C
\* backend builds directly (SourceAstNode::from) is the array length of the
\* MessageStructMember the common AST builder builds (from_protocol), whatever
\* the attribute list: no MaxLength, one MaxLength of any value, 0 included,
\* repeated MaxLength attributes.
C27_SameArrayLength ==
    src_pc = "built" =>
        \A i \in 1..Len(protocol.messages) :
            \A k \in 1..Len(protocol.messages[i].fields) :
                LET direct == source.children[2 * i - 1].children[k]
                    built == from_protocol(protocol).children[4 * (i - 1) + 2].children[k]
                IN  direct.ast_node_type.node.array_length =
                        built.ast_node_type.array_length

\* C28: the lint report and the builder agree on the fields that lack a length
\* bound: the MaxLength linter yields a Warning for a field exactly when the
\* common AST builder applies the default length 64, with its diagnostic, for
\* that field.
C28_WarningIffDefault ==
    lint_pc = "done" =>
        \A place \in FieldPlaces :
            LET field == protocol.messages[place[1]].fields[place[2]]
                entry == protocol_lint_result[PlaceOf(place[1], place[2], 2)]
            IN  entry.type = "Warning" <=> default_applied(field)

\* C29: with the built-in linters the report of validate_protocol holds no
\* Error entry, whatever the protocol: every entry is Ok or Warning, and no
\* protocol is found invalid for generation by validation alone.
C29_NoErrorInReport ==
    \A n \in 1..Len(protocol_lint_result) :
        /\ protocol_lint_result[n].type # "Error"
        /\ protocol_lint_result[n].type \in {"Ok", "Warning"}

\* a finished validation of two messages whose report holds Ok entries and a
\* Warning
C29_Witness ==
    /\ lint_pc = "done"
    /\ Len(protocol.messages) = 2
    /\ NumFields = 2
    /\ Warnings(protocol_lint_result) # {}
    /\ \E n \in 1..Len(protocol_lint_result) : protocol_lint_result[n] = Ok
    /\ Len(protocol_lint_result) = 4

\* the chunk that opens a struct, the chunk that closes one
IsOpening(chunk) ==
    \E name \in ProtocolMessageNames :
        \/ chunk.code = "struct " \o name \o "Message {"
        \/ chunk.code = "struct " \o name \o "ParserState {"

IsClosing(chunk) == chunk.code = "};"

\* the place in the result of the first chunk of the Common child: each
\* message gives an opening, its members, a closing, and the four chunks of
\* its ParserStateStruct
CommonStart ==
    1 + Sum([i \in 1..Len(protocol.messages) |->
                Len(protocol.messages[i].fields) + 6])

====
